---- MODULE Spec2Model ----
(***************************************************************************)
(* A model of crudo (src/crud.go, first package body): the query-string    *)
(* parser RequestToQueryParamsTransfer with KeyToKeyOp, QueryValuesToValues*)
(* and TransferType, and the operations that consume its result.           *)
(*                                                                         *)
(* Go strings are sequences of one-character strings, so that LastIndex,   *)
(* Split and the strconv parsers are computed on the characters.           *)
(***************************************************************************)
EXTENDS Integers, Sequences, FiniteSets, TLC

VARIABLES
    pc,           \* position of the request in its handler
    query,        \* the query args VisitAll has delivered so far, in order
    queryParams,  \* the QueryParams the parser closure is filling
    ret,          \* what ParseRequestFunc returned: the input (by kind) and err
    body,         \* the request's body as BodyParser sees it
    rows,         \* the table in the row store: a set of rows
    result,       \* what DataOperationFunc returned
    idParam,      \* ctx.Params("id")
    stmt,         \* the last statement sent to the row store
    keyIn,        \* KeyToKeyOp: the key passed
    keyOut,       \* KeyToKeyOp: the (field, op) returned
    cTransferMap, \* c.TransferMap: API field name -> storage field name
    tdInput,      \* transferData: the map first passed
    transfers,    \* transferData: the calls made, each [input, reverse, output]
    response,     \* the response written: HTTP status and the CodeMsg envelope
    config,       \* cm.config: the ServiceConfig the manager was built from
    dbs,          \* cm.dbs: the names of the databases connected
    routes,       \* cm.routes: PathPrefix -> the Crud registered under it
    cmInit,       \* cm.init() has run and returned nil
    cmErr,        \* the error NewCrudManager or cm.init() returned, "" for nil
    method,       \* ctx.Method()
    ctxPath,      \* ctx.Path()
    matched,      \* the Prefix of the Crud whose Handle ran, <<>> for none
    tableInfo,    \* Db.GetTableInfo(qb.table).Columns: the columns of the table
    columnLock,   \* qb.columnLock: 0 when free, else the caller holding it
    qbCache,      \* qb.columnCache of the QueryBuilder under concurrent calls
    fetches,      \* the number of Db.GetTableInfo calls made
    calls,        \* CacheTableInfo: each caller's position, loop index and return value
    opPath,       \* the HandlerMap key the request is for
    primaryKeys,  \* tableInfo.PrimaryKeys of Db.GetTableInfo(c.Table)
    concurrent,   \* the statements of concurrent requests applied so far, each [op, id, at]
    mu,           \* cm.mu, the manager's sync.RWMutex: readers holding it, writer holding it, writer waiting
    reqs,         \* the requests in cm.handle: where each one is, what it asked, the Crud it matched
    upd,          \* the call of UpdateConfig: where it is, its new configuration, what the manager held when it took the lock
    closed,       \* the database handles db.Close() was called on
    generation    \* the number of times UpdateConfig replaced cm.dbs

vars == <<pc, query, queryParams, ret, body, rows, result, idParam, stmt, keyIn, keyOut, cTransferMap, tdInput, transfers, response, config, dbs, routes, cmInit, cmErr, method, ctxPath, matched, tableInfo, columnLock, qbCache, fetches, calls, opPath, primaryKeys, concurrent, mu, reqs, upd, closed, generation>>

(***************************************************************************)
(* Bounds                                                                  *)
(***************************************************************************)
\* the number of query args of one request
MaxArgs == 2
\* the number of underscore-separated segments of a key's field part
MaxSegs == 2
\* the number of goroutines calling CacheTableInfo on one QueryBuilder
NumCallers == 3

(***************************************************************************)
(* strings                                                                 *)
(***************************************************************************)
Digits == {"0", "1", "2", "3", "4", "5", "6", "7", "8", "9"}

DigitVal(c) ==
    CASE c = "0" -> 0 [] c = "1" -> 1 [] c = "2" -> 2 [] c = "3" -> 3
      [] c = "4" -> 4 [] c = "5" -> 5 [] c = "6" -> 6 [] c = "7" -> 7
      [] c = "8" -> 8 [] c = "9" -> 9

\* strings.LastIndex(s, c) for a one-character c, 1-based; 0 stands for Go's -1
LastIndex(s, c) ==
    IF \E i \in 1..Len(s) : s[i] = c
    THEN CHOOSE i \in 1..Len(s) : s[i] = c /\ \A j \in (i+1)..Len(s) : s[j] # c
    ELSE 0

\* strings.Index(s, c) for a one-character c, 1-based; 0 stands for Go's -1
Index(s, c) ==
    IF \E i \in 1..Len(s) : s[i] = c
    THEN CHOOSE i \in 1..Len(s) : s[i] = c /\ \A j \in 1..(i-1) : s[j] # c
    ELSE 0

\* strings.Split(s, sep) for a one-character sep: always at least one element
RECURSIVE Split(_, _)
Split(s, sep) ==
    LET i == Index(s, sep) IN
    IF i = 0 THEN <<s>>
    ELSE <<SubSeq(s, 1, i - 1)>> \o Split(SubSeq(s, i + 1, Len(s)), sep)

(***************************************************************************)
(* strconv                                                                 *)
(***************************************************************************)
RECURSIVE StripZeros(_)
StripZeros(d) ==
    IF Len(d) > 1 /\ d[1] = "0" THEN StripZeros(Tail(d)) ELSE d

\* a < b for two digit strings without leading zeros
RECURSIVE DigitsLess(_, _)
DigitsLess(a, b) ==
    IF Len(a) # Len(b) THEN Len(a) < Len(b)
    ELSE IF Len(a) = 0 THEN FALSE
    ELSE IF a[1] # b[1] THEN DigitVal(a[1]) < DigitVal(b[1])
    ELSE DigitsLess(Tail(a), Tail(b))

RECURSIVE DigitsValue(_)
DigitsValue(d) ==
    IF Len(d) = 0 THEN 0 ELSE 10 * DigitsValue(SubSeq(d, 1, Len(d) - 1)) + DigitVal(d[Len(d)])

\* the decimal digits of 2^n, for the widths strconv is called with
Pow2(n) ==
    CASE n = 7  -> <<"1","2","8">>
      [] n = 8  -> <<"2","5","6">>
      [] n = 15 -> <<"3","2","7","6","8">>
      [] n = 16 -> <<"6","5","5","3","6">>
      [] n = 31 -> <<"2","1","4","7","4","8","3","6","4","8">>
      [] n = 32 -> <<"4","2","9","4","9","6","7","2","9","6">>
      [] n = 63 -> <<"9","2","2","3","3","7","2","0","3","6","8","5","4","7","7","5","8","0","8">>
      [] n = 64 -> <<"1","8","4","4","6","7","4","4","0","7","3","7","0","9","5","5","1","6","1","6">>

\* strconv.ParseUint(s, 10, bitSize): [err, n]
ParseUint(s, bitSize) ==
    IF Len(s) = 0 \/ \E i \in 1..Len(s) : s[i] \notin Digits
    THEN [err |-> TRUE, n |-> 0]
    ELSE IF ~DigitsLess(StripZeros(s), Pow2(bitSize))
    THEN [err |-> TRUE, n |-> 0]
    ELSE [err |-> FALSE, n |-> DigitsValue(StripZeros(s))]

\* strconv.ParseInt(s, 10, bitSize): [err, n]
ParseInt(s, bitSize) ==
    IF Len(s) = 0 THEN [err |-> TRUE, n |-> 0]
    ELSE
        LET neg  == s[1] = "-"
            rest == IF s[1] \in {"+", "-"} THEN Tail(s) ELSE s
            mag  == StripZeros(rest)
            cut  == Pow2(bitSize - 1)
        IN  IF Len(rest) = 0 \/ \E i \in 1..Len(rest) : rest[i] \notin Digits
            THEN [err |-> TRUE, n |-> 0]
            ELSE IF (~neg /\ ~DigitsLess(mag, cut)) \/ (neg /\ DigitsLess(cut, mag))
            THEN [err |-> TRUE, n |-> 0]
            ELSE [err |-> FALSE, n |-> IF neg THEN 0 - DigitsValue(mag) ELSE DigitsValue(mag)]

\* strconv.Atoi(s): int is 64 bits wide
Atoi(s) == ParseInt(s, 64)

\* strconv.ParseBool(s): [err, b]
ParseBool(s) ==
    IF s \in {<<"1">>, <<"t">>, <<"T">>, <<"t","r","u","e">>, <<"T","R","U","E">>, <<"T","r","u","e">>}
    THEN [err |-> FALSE, b |-> TRUE]
    ELSE IF s \in {<<"0">>, <<"f">>, <<"F">>, <<"f","a","l","s","e">>, <<"F","A","L","S","E">>, <<"F","a","l","s","e">>}
    THEN [err |-> FALSE, b |-> FALSE]
    ELSE [err |-> TRUE, b |-> FALSE]

\* strconv.ParseFloat(s, bitSize) on plain decimal text, an optional sign,
\* digits and at most one point: [err, m, e] with the value m * 10^e. The
\* exponent, hexadecimal, inf and nan forms are outside the model's strings.
ParseFloat(s) ==
    LET rest == IF Len(s) > 0 /\ s[1] \in {"+", "-"} THEN Tail(s) ELSE s
        pt   == Index(rest, ".")
        int  == IF pt = 0 THEN rest ELSE SubSeq(rest, 1, pt - 1)
        frac == IF pt = 0 THEN <<>> ELSE SubSeq(rest, pt + 1, Len(rest))
        ds   == int \o frac
    IN  IF Len(ds) = 0 \/ \E i \in 1..Len(ds) : ds[i] \notin Digits
        THEN [err |-> TRUE, m |-> 0, e |-> 0]
        ELSE [err |-> FALSE,
              m |-> IF s[1] = "-" THEN 0 - DigitsValue(StripZeros(ds)) ELSE DigitsValue(StripZeros(ds)),
              e |-> 0 - Len(frac)]

(***************************************************************************)
(* time.Parse over the layouts of timeFormats                              *)
(***************************************************************************)
AllDigits(s) == \A i \in 1..Len(s) : s[i] \in Digits

\* the calendar check of time.Parse: month 1..12, day within the month
ValidDate(y, m, d) ==
    /\ m \in 1..12
    /\ d >= 1
    /\ d <= (IF m \in {4, 6, 9, 11} THEN 30
             ELSE IF m # 2 THEN 31
             ELSE IF (y % 4 = 0 /\ y % 100 # 0) \/ y % 400 = 0 THEN 29 ELSE 28)

\* time.Parse("2006-01-02", v) succeeds
LayoutDate(v) ==
    /\ Len(v) = 10
    /\ v[5] = "-" /\ v[8] = "-"
    /\ AllDigits(SubSeq(v, 1, 4) \o SubSeq(v, 6, 7) \o SubSeq(v, 9, 10))
    /\ ValidDate(DigitsValue(SubSeq(v, 1, 4)), DigitsValue(SubSeq(v, 6, 7)),
                 DigitsValue(SubSeq(v, 9, 10)))

\* time.Parse("20060102", v) succeeds
LayoutCompactDate(v) ==
    /\ Len(v) = 8
    /\ AllDigits(v)
    /\ ValidDate(DigitsValue(SubSeq(v, 1, 4)), DigitsValue(SubSeq(v, 5, 6)),
                 DigitsValue(SubSeq(v, 7, 8)))

\* the loop over timeFormats: [err]. Every other layout of the list needs a
\* ':', '/', ' ', 'T' or a month or weekday name, or 14 digits; the strings of
\* the model have none of these, so only the two date layouts can match.
parseTimeWithMultipleFormats(v) ==
    [err |-> ~(LayoutDate(v) \/ LayoutCompactDate(v))]

\* strings.Contains(s, sub)
Contains(s, sub) ==
    \E i \in 0..(Len(s) - Len(sub)) : SubSeq(s, i + 1, i + Len(sub)) = sub

\* strings.ToLower, on the letters the type names use
ToLower(s) ==
    [i \in 1..Len(s) |->
        CASE s[i] = "T" -> "t" [] s[i] = "D" -> "d" [] s[i] = "A" -> "a"
          [] s[i] = "E" -> "e" [] s[i] = "I" -> "i" [] s[i] = "M" -> "m"
          [] s[i] = "S" -> "s" [] s[i] = "P" -> "p" [] OTHER -> s[i]]

\* the characters of a define.ColumnInfo.DataType of the model
TypeChars(dataType) ==
    CASE dataType = "time.Time" -> <<"t","i","m","e",".","T","i","m","e">>
      [] dataType = "string"    -> <<"s","t","r","i","n","g">>
      [] dataType = "int8"      -> <<"i","n","t","8">>
      [] dataType = "int16"     -> <<"i","n","t","1","6">>
      [] dataType = "int32"     -> <<"i","n","t","3","2">>
      [] dataType = "int64"     -> <<"i","n","t","6","4">>
      [] dataType = "bool"      -> <<"b","o","o","l">>
      [] OTHER -> <<>>

\* isTimeField(dataType)
isTimeField(dataType) ==
    LET timeTypes == {<<"t","i","m","e">>, <<"d","a","t","e">>,
                      <<"t","i","m","e","s","t","a","m","p">>,
                      <<"d","a","t","e","t","i","m","e">>,
                      <<"t","i","m","e","s","t","a","m","p","t","z">>,
                      <<"t","i","m","e",".","T","i","m","e">>, <<"T","i","m","e">>,
                      <<"D","A","T","E">>, <<"T","I","M","E","S","T","A","M","P">>,
                      <<"D","A","T","E","T","I","M","E">>}
    IN  \E tt \in timeTypes : Contains(ToLower(TypeChars(dataType)), ToLower(tt))

(***************************************************************************)
(* KeyToKeyOp                                                              *)
(***************************************************************************)
OpNames ==
    {"OpEq", "OpNe", "OpGt", "OpGe", "OpLt", "OpLe", "OpIn", "OpNotIn",
     "OpIsNull", "OpIsNotNull", "OpBetween", "OpNotBetween", "OpLike", "OpNotLike"}

\* the switch of KeyToKeyOp on the text after the last underscore
OpOfSuffix(opStr) ==
    CASE opStr = <<"e","q">> -> "OpEq"
      [] opStr = <<"n","e">> -> "OpNe"
      [] opStr = <<"g","t">> -> "OpGt"
      [] opStr = <<"g","e">> -> "OpGe"
      [] opStr = <<"l","t">> -> "OpLt"
      [] opStr = <<"l","e">> -> "OpLe"
      [] opStr = <<"i","n">> -> "OpIn"
      [] opStr = <<"n","o","t","I","n">> -> "OpNotIn"
      [] opStr = <<"i","s","N","u","l","l">> -> "OpIsNull"
      [] opStr = <<"i","s","N","o","t","N","u","l","l">> -> "OpIsNotNull"
      [] opStr = <<"b","e","t","w","e","e","n">> -> "OpBetween"
      [] opStr = <<"n","o","t","B","e","t","w","e","e","n">> -> "OpNotBetween"
      [] opStr = <<"l","i","k","e">> -> "OpLike"
      [] opStr = <<"n","o","t","L","i","k","e">> -> "OpNotLike"
      [] OTHER -> "OpEq"

\* a plausible slip: splitting at the first underscore instead of the last
KeyToKeyOpFirstUnderscore(key) ==
    LET i == Index(key, "_") IN
    IF i = 0 THEN [field |-> key, op |-> "OpEq"]
    ELSE [field |-> SubSeq(key, 1, i - 1),
          op    |-> OpOfSuffix(SubSeq(key, i + 1, Len(key)))]

KeyToKeyOp(key) ==
    LET lastIndex == LastIndex(key, "_") IN
    IF lastIndex = 0 THEN [field |-> key, op |-> "OpEq"]
    ELSE [field |-> SubSeq(key, 1, lastIndex - 1),
          op    |-> OpOfSuffix(SubSeq(key, lastIndex + 1, Len(key)))]

(***************************************************************************)
(* names, the column catalog and the field map of the Crud under test      *)
(***************************************************************************)
nId       == <<"i","d">>
nName     == <<"n","a","m","e">>
nAge      == <<"a","g","e">>
nLevel    == <<"l","e","v","e","l">>
nActive   == <<"a","c","t","i","v","e">>
nUserName == <<"u","s","e","r","N","a","m","e">>
nUserAge  == <<"u","s","e","r","A","g","e">>
nBogus    == <<"b","o","g","u","s">>
nCreatedAt == <<"c","r","e","a","t","e","d","_","a","t">>
nUpdatedAt == <<"u","p","d","a","t","e","d","_","a","t">>
nBirthday  == <<"b","i","r","t","h","d","a","y">>

nIds      == <<"i","d","s">>

kPage        == <<"p","a","g","e">>
kPageSize    == <<"p","a","g","e","S","i","z","e">>
kOrderBy     == <<"o","r","d","e","r","B","y">>
kOrderByDesc == <<"o","r","d","e","r","B","y","D","e","s","c">>

ColumnInfo(name, dataType, isPk, isAuto) ==
    [Name |-> name, DataType |-> dataType, IsPrimaryKey |-> isPk, IsAutoIncrement |-> isAuto]

\* qb.columnCache after CacheTableInfo: column name -> define.ColumnInfo
columnCache ==
    [c \in {nId, nName, nAge, nLevel, nActive, nCreatedAt, nUpdatedAt, nBirthday} |->
        CASE c = nId     -> ColumnInfo(nId, "int64", TRUE, TRUE)
          [] c = nName   -> ColumnInfo(nName, "string", FALSE, FALSE)
          [] c = nAge    -> ColumnInfo(nAge, "int32", FALSE, FALSE)
          [] c = nLevel  -> ColumnInfo(nLevel, "int8", FALSE, FALSE)
          [] c = nActive -> ColumnInfo(nActive, "bool", FALSE, FALSE)
          [] c = nCreatedAt -> ColumnInfo(nCreatedAt, "time.Time", FALSE, FALSE)
          [] c = nUpdatedAt -> ColumnInfo(nUpdatedAt, "time.Time", FALSE, FALSE)
          [] c = nBirthday  -> ColumnInfo(nBirthday, "time.Time", FALSE, FALSE)]

\* Crud.TransferMap: API field name -> storage field name
TransferMap ==
    [a \in {nUserName, nUserAge} |-> IF a = nUserName THEN nName ELSE nAge]

(***************************************************************************)
(* typed values: a Go `any` holding a scalar carries its dynamic type      *)
(***************************************************************************)
\* k: the dynamic type; n: the number (for a float64 the mantissa, with e the
\* decimal exponent: n * 10^e); s: the characters of a string or []byte
StrVal(s)      == [k |-> "string", n |-> 0, e |-> 0, s |-> s]
IntVal(t, n)   == [k |-> t, n |-> n, e |-> 0, s |-> <<>>]
FloatVal(m, e) == [k |-> "float64", n |-> m, e |-> e, s |-> <<>>]
BoolVal(b)     == [k |-> "bool", n |-> IF b THEN 1 ELSE 0, e |-> 0, s |-> <<>>]
BytesVal(s)    == [k |-> "[]byte", n |-> 0, e |-> 0, s |-> s]
NilVal         == [k |-> "nil", n |-> 0, e |-> 0, s |-> <<>>]
\* a time.Time, named by the text it was parsed from
TimeVal(s)     == [k |-> "time.Time", n |-> 0, e |-> 0, s |-> s]
\* time.Now()
now            == TimeVal(<<"n","o","w">>)

\* TransferType(column)(v): [err, val]
TransferType(column, v) ==
    LET Signed(bits) ==
            LET r == ParseInt(v, bits) IN
            IF r.err THEN [err |-> TRUE, val |-> NilVal]
            ELSE [err |-> FALSE, val |-> IntVal("int64", r.n)]
        Unsigned(bits, t) ==
            LET r == ParseUint(v, bits) IN
            IF r.err THEN [err |-> TRUE, val |-> NilVal]
            ELSE [err |-> FALSE, val |-> IntVal(t, r.n)]
        t == column.DataType
    IN  CASE t = "string" -> [err |-> FALSE, val |-> StrVal(v)]
          [] t = "int8"   -> Signed(8)
          [] t = "int16"  -> Signed(16)
          [] t = "int32"  -> Signed(32)
          [] t = "bool"   ->
                LET r == ParseBool(v) IN
                IF r.err THEN [err |-> TRUE, val |-> NilVal]
                ELSE [err |-> FALSE, val |-> BoolVal(r.b)]
          [] t = "time.Time" ->
                IF parseTimeWithMultipleFormats(v).err THEN [err |-> TRUE, val |-> NilVal]
                ELSE [err |-> FALSE, val |-> TimeVal(v)]
          [] t = "uint8"  -> Unsigned(8, "uint8")
          [] t = "uint16" -> Unsigned(16, "uint16")
          [] t = "uint32" -> Unsigned(32, "uint32")
          [] t = "uint64" -> Unsigned(64, "uint64")
          [] t \in {"float32", "float64"} ->
                LET r == ParseFloat(v) IN
                IF r.err THEN [err |-> TRUE, val |-> NilVal]
                ELSE [err |-> FALSE, val |-> [FloatVal(r.m, r.e) EXCEPT !.k = t]]
          [] t = "[]byte" -> [err |-> FALSE, val |-> BytesVal(v)]
          [] t = "[]uint8" -> [err |-> FALSE, val |-> BytesVal(v)]
          [] OTHER -> [err |-> FALSE, val |-> StrVal(v)]

\* ConditionParam.Values: the bare scalar (list = FALSE, one element) or a []any
Scalar(x) == [list |-> FALSE, vals |-> <<x>>]
List(xs)  == [list |-> TRUE, vals |-> xs]

\* a plausible slip: the single value is returned wrapped in a one-element list
QueryValuesToValuesAlwaysList(op, values, column) ==
    LET anyValues == [i \in 1..Len(values) |-> TransferType(column, values[i])] IN
    IF \E i \in 1..Len(values) : anyValues[i].err
    THEN [err |-> TRUE, val |-> List(<<>>)]
    ELSE [err |-> FALSE, val |-> List([i \in 1..Len(values) |-> anyValues[i].val])]

\* QueryValuesToValues(op, values, column): [err, val]
QueryValuesToValues(op, values, column) ==
    LET anyValues == [i \in 1..Len(values) |-> TransferType(column, values[i])] IN
    IF \E i \in 1..Len(values) : anyValues[i].err
    THEN [err |-> TRUE, val |-> List(<<>>)]
    ELSE IF Len(values) = 1
    THEN [err |-> FALSE, val |-> Scalar(anyValues[1].val)]
    ELSE [err |-> FALSE, val |-> List([i \in 1..Len(values) |-> anyValues[i].val])]

(***************************************************************************)
(* RequestToQueryParamsTransfer                                            *)
(***************************************************************************)
\* QueryParams{Table: tableName}: the zero value of every other field
NewQueryParams ==
    [Page |-> 0, PageSize |-> 0, ConditionParams |-> <<>>,
     OrderBy |-> <<>>, OrderByDesc |-> <<>>]

\* transferMap[vi] when present, vi otherwise
Translate(transferMap, name) ==
    IF name \in DOMAIN transferMap THEN transferMap[name] ELSE name

TranslateAll(transferMap, values) ==
    [i \in 1..Len(values) |-> Translate(transferMap, values[i])]

\* a plausible slip: only page = 0 is replaced, negative pages are kept
PageArgZeroOnly(qp, v) ==
    LET r == Atoi(v) IN
    IF r.err THEN qp
    ELSE [qp EXCEPT !.Page = IF r.n = 0 THEN 1 ELSE r.n]

\* k == "page": lines 884-892
PageArg(qp, v) ==
    LET r == Atoi(v) IN
    IF r.err THEN qp
    ELSE [qp EXCEPT !.Page = IF r.n < 1 THEN 1 ELSE r.n]

\* k == "pageSize": lines 893-901
PageSizeArg(qp, v) ==
    LET r == Atoi(v) IN
    IF r.err THEN qp
    ELSE [qp EXCEPT !.PageSize = IF r.n < 1 THEN 10 ELSE r.n]

\* k == "orderBy": lines 902-912
OrderByArg(qp, transferMap, v) ==
    [qp EXCEPT !.OrderBy = TranslateAll(transferMap, Split(v, ","))]

\* k == "orderByDesc": lines 913-923
OrderByDescArg(qp, transferMap, v) ==
    [qp EXCEPT !.OrderByDesc = TranslateAll(transferMap, Split(v, ","))]

\* a plausible slip: the condition keeps the key as the client wrote it
ConditionArgUntranslated(qp, transferMap, columnMap, k, v) ==
    LET ko  == KeyToKeyOp(k)
        key == Translate(transferMap, ko.field)
    IN  IF key \notin DOMAIN columnMap THEN qp
        ELSE
            LET r == QueryValuesToValues(ko.op, Split(v, ","), columnMap[key]) IN
            IF r.err THEN qp
            ELSE [qp EXCEPT !.ConditionParams =
                    Append(@, [Key |-> ko.field, Op |-> ko.op, Values |-> r.val])]

\* a plausible slip: the coercion error is ignored and the condition appended
\* with the nil value QueryValuesToValues returned beside the error
ConditionArgIgnoresErr(qp, transferMap, columnMap, k, v) ==
    LET ko  == KeyToKeyOp(k)
        key == Translate(transferMap, ko.field)
    IN  IF key \notin DOMAIN columnMap THEN qp
        ELSE
            LET r == QueryValuesToValues(ko.op, Split(v, ","), columnMap[key]) IN
            [qp EXCEPT !.ConditionParams =
                Append(@, [Key |-> key, Op |-> ko.op,
                           Values |-> IF r.err THEN Scalar(NilVal) ELSE r.val])]

\* a plausible slip: the lookup's ok is dropped, so an unknown field gets the
\* zero ColumnInfo (DataType "") and goes on to coercion
ConditionArgNoColumnCheck(qp, transferMap, columnMap, k, v) ==
    LET ko  == KeyToKeyOp(k)
        key == Translate(transferMap, ko.field)
        col == IF key \in DOMAIN columnMap THEN columnMap[key]
               ELSE ColumnInfo(<<>>, "", FALSE, FALSE)
        r   == QueryValuesToValues(ko.op, Split(v, ","), col)
    IN  IF r.err THEN qp
        ELSE [qp EXCEPT !.ConditionParams =
                Append(@, [Key |-> key, Op |-> ko.op, Values |-> r.val])]

\* any other key: lines 925-943
ConditionArg(qp, transferMap, columnMap, k, v) ==
    LET ko  == KeyToKeyOp(k)
        key == Translate(transferMap, ko.field)
    IN  IF key \notin DOMAIN columnMap THEN qp
        ELSE
            LET r == QueryValuesToValues(ko.op, Split(v, ","), columnMap[key]) IN
            IF r.err THEN qp
            ELSE [qp EXCEPT !.ConditionParams =
                    Append(@, [Key |-> key, Op |-> ko.op, Values |-> r.val])]

\* the closure passed to QueryArgs().VisitAll, applied to one (key, value)
VisitAllCallback(qp, transferMap, columnMap, k, v) ==
    IF k = kPage THEN PageArg(qp, v)
    ELSE IF k = kPageSize THEN PageSizeArg(qp, v)
    ELSE IF k = kOrderBy THEN OrderByArg(qp, transferMap, v)
    ELSE IF k = kOrderByDesc THEN OrderByDescArg(qp, transferMap, v)
    ELSE ConditionArg(qp, transferMap, columnMap, k, v)

(***************************************************************************)
(* the requests of the model: query args after URL decoding                *)
(***************************************************************************)
K(field, suffix) == field \o <<"_">> \o suffix

sEq      == <<"e","q">>
sGt      == <<"g","t">>
sIn      == <<"i","n">>
sLike    == <<"l","i","k","e">>
sBetween == <<"b","e","t","w","e","e","n">>

v0      == <<"0">>
v1      == <<"1">>
v2      == <<"2">>
v5      == <<"5">>
v7      == <<"7">>
v20     == <<"2","0">>
v300    == <<"3","0","0">>
vNeg5   == <<"-","5">>
vAbc    == <<"a","b","c">>
vAl     == <<"%","A","l","%">>
vTrue   == <<"t","r","u","e">>
vYes    == <<"y","e","s">>
v10c20  == <<"1","0",",","2","0">>
v10cX   == <<"1","0",",","x">>
v5c6    == <<"5",",","6">>

QueryArgs ==
    {<<kPage, v2>>, <<kPage, v0>>, <<kPage, vNeg5>>, <<kPage, vAbc>>,
     <<kPageSize, v5>>, <<kPageSize, v0>>, <<kPageSize, vAbc>>,
     <<kOrderBy, nUserName>>, <<kOrderBy, nUserName \o <<",">> \o nId>>, <<kOrderBy, nLevel>>,
     <<kOrderByDesc, nUserAge>>, <<kOrderByDesc, nId \o <<",">> \o nUserName>>,
     <<K(nUserName, sLike), vAl>>,
     <<K(nUserAge, sGt), v20>>, <<K(nUserAge, sGt), vAbc>>,
     <<K(nUserAge, sBetween), v10c20>>, <<K(nUserAge, sBetween), v10cX>>,
     <<K(nUserAge, sIn), v5c6>>, <<K(nUserAge, sIn), v5>>,
     <<K(nAge, sEq), v5>>,
     <<K(nLevel, sEq), v7>>, <<K(nLevel, sEq), v300>>,
     <<K(nBogus, sEq), v1>>,
     <<nName, vAbc>>,
     <<K(nActive, sEq), vTrue>>, <<K(nActive, sEq), vYes>>,
     <<K(nId, sEq), v1>>}

\* the (any, error) of a ParseRequestFunc; kind is the dynamic type of the any
NoRet == [kind |-> "none", params |-> NewQueryParams, ids |-> <<>>, data |-> <<>>, err |-> FALSE]
QueryParamsRet(qp) == [NoRet EXCEPT !.kind = "QueryParams", !.params = qp]
DeleteRequestRet(ids) == [NoRet EXCEPT !.kind = "DeleteRequest", !.ids = ids]
MapRet(data) == [NoRet EXCEPT !.kind = "map", !.data = data]
ErrRet == [NoRet EXCEPT !.err = TRUE]

\* a request body: none that BodyParser can decode, or a JSON object, a map
\* from member name to its value (Scalar(x), or List(xs) for an array)
NoBody == [kind |-> "none", obj |-> <<>>]
JsonBody(obj) == [kind |-> "json", obj |-> obj]
NoResult == [kind |-> "none", deleted_count |-> 0, row |-> <<>>, err |-> ""]

\* a statement as the row store receives it: INSERT of fields, UPDATE of
\* fields WHERE primaryKey = filter, or DELETE
Statement(op, filter, fields) == [op |-> op, filter |-> filter, fields |-> fields]
NoStatement == Statement("none", Scalar(NilVal), <<>>)
NoKeyOp == [field |-> <<>>, op |-> "OpEq"]

\* the data of a response: nil, or a JSON object
NilData == [kind |-> "nil", obj |-> <<>>]
ObjectData(obj) == [kind |-> "object", obj |-> obj]

\* RenderJson(c, code, msg, data): HTTP 200 with CodeMsg{code, msg, data}
RenderJson(code, msg, data) ==
    [status |-> 200, code |-> code, message |-> msg, data |-> data]
RenderOk(data) == RenderJson(200, "ok", data)
\* RenderErrs(c, err), err # nil
RenderErrs(err) == RenderJson(500, err, NilData)
NoResponse == [status |-> 0, code |-> 0, message |-> "", data |-> NilData]
\* ctx.Status(status).JSON(fiber.Map{"error": msg}): no CodeMsg envelope
StatusJSON(status, msg) == [NoResponse EXCEPT !.status = status, !.message = msg]
NoConfig == [Databases |-> <<>>, Tables |-> <<>>]

\* a sync.RWMutex nobody holds or waits for
FreeMutex == [readers |-> 0, writer |-> FALSE, waiting |-> FALSE]

\* no call of UpdateConfig made
NoUpdate == [at |-> "idle", conf |-> NoConfig, err |-> "",
             prevRoutes |-> <<>>, prevDbs |-> {}]

(***************************************************************************)
(* Spec: one request through RequestToQueryParamsTransfer                  *)
(***************************************************************************)
Init ==
    /\ pc = "parse"
    /\ query = <<>>
    /\ queryParams = NewQueryParams
    /\ ret = NoRet
    /\ body = NoBody
    /\ rows = {}
    /\ result = NoResult
    /\ idParam = <<>>
    /\ stmt = NoStatement
    /\ keyIn = <<>>
    /\ keyOut = NoKeyOp
    /\ cTransferMap = TransferMap
    /\ tdInput = <<>>
    /\ transfers = <<>>
    /\ response = NoResponse
    /\ config = NoConfig
    /\ dbs = {}
    /\ routes = <<>>
    /\ cmInit = FALSE
    /\ cmErr = ""
    /\ method = ""
    /\ ctxPath = <<>>
    /\ matched = <<>>
    /\ tableInfo = <<>>
    /\ columnLock = 0
    /\ qbCache = <<>>
    /\ fetches = 0
    /\ calls = <<>>
    /\ opPath = <<>>
    /\ primaryKeys = <<nId>>
    /\ concurrent = <<>>
    /\ mu = FreeMutex
    /\ reqs = <<>>
    /\ upd = NoUpdate
    /\ closed = {}
    /\ generation = 0

\* VisitAll delivers the next (key, value) of the query string to the closure
VisitAllFrom(args) ==
    /\ pc = "parse"
    /\ Len(query) < MaxArgs
    /\ \E a \in args :
        /\ query' = Append(query, a)
        /\ queryParams' = VisitAllCallback(queryParams, cTransferMap, columnCache, a[1], a[2])
    /\ UNCHANGED <<pc, ret, body, rows, result, idParam, stmt, keyIn, keyOut, cTransferMap, tdInput, transfers, response, config, dbs, routes, cmInit, cmErr, method, ctxPath, matched, tableInfo, columnLock, qbCache, fetches, calls, opPath, primaryKeys, concurrent, mu, reqs, upd, closed, generation>>

VisitAll == VisitAllFrom(QueryArgs)

\* the parser's only return statement: return queryParams, nil
RequestToQueryParamsTransfer ==
    /\ pc = "parse"
    /\ pc' = "parsed"
    /\ ret' = QueryParamsRet(queryParams)
    /\ UNCHANGED <<query, queryParams, body, rows, result, idParam, stmt, keyIn, keyOut, cTransferMap, tdInput, transfers, response, config, dbs, routes, cmInit, cmErr, method, ctxPath, matched, tableInfo, columnLock, qbCache, fetches, calls, opPath, primaryKeys, concurrent, mu, reqs, upd, closed, generation>>

Next == VisitAll \/ RequestToQueryParamsTransfer

Spec == Init /\ [][Next]_vars

(***************************************************************************)
(* the row store: one table with the catalog's columns                     *)
(***************************************************************************)
vAlName == <<"A","l">>
vBoName == <<"B","o">>

Row(id, name, age) ==
    [c \in DOMAIN columnCache |->
        CASE c = nId     -> IntVal("int64", id)
          [] c = nName   -> name
          [] c = nAge    -> IntVal("int64", age)
          [] c = nLevel  -> IntVal("int64", 1)
          [] c = nActive -> BoolVal(TRUE)
          [] c = nCreatedAt -> TimeVal(<<"t","0">>)
          [] c = nUpdatedAt -> TimeVal(<<"t","0">>)
          [] c = nBirthday  -> NilVal]

InitialRows ==
    {Row(1, StrVal(vAlName), 20), Row(2, StrVal(vBoName), 30), Row(3, NilVal, 40)}

\* tableInfo.PrimaryKeys of Db.GetTableInfo(c.Table)
PrimaryKeys == primaryKeys

RECURSIVE Pow10(_)
Pow10(n) == IF n = 0 THEN 1 ELSE 10 * Pow10(n - 1)

\* the number the database reads in a bound parameter or a stored value
SqlNum(x) ==
    IF x.k = "string" THEN ParseInt(x.s, 64).n
    ELSE IF x.k = "float64" THEN x.n * Pow10(x.e)
    ELSE x.n

NumericColumn(key) ==
    columnCache[key].DataType \in {"int8", "int16", "int32", "int64"}

\* column = parameter, as the database evaluates it: never true on NULL
SqlEq(key, x, p) ==
    /\ x.k # "nil"
    /\ p.k # "nil"
    /\ IF NumericColumn(key) THEN SqlNum(x) = SqlNum(p)
       ELSE IF x.k = "bool" THEN p.k = "bool" /\ x.n = p.n
       ELSE x.s = p.s

\* column < parameter on a numeric column: never true on NULL
SqlLess(x, p) == x.k # "nil" /\ p.k # "nil" /\ SqlNum(x) < SqlNum(p)

\* the pattern match of SQL LIKE: % any run of characters, _ any one
RECURSIVE Like(_, _)
Like(str, pat) ==
    IF Len(pat) = 0 THEN Len(str) = 0
    ELSE IF pat[1] = "%" THEN Like(str, Tail(pat)) \/ (Len(str) > 0 /\ Like(Tail(str), pat))
    ELSE Len(str) > 0 /\ (pat[1] = "_" \/ pat[1] = str[1]) /\ Like(Tail(str), Tail(pat))

\* the row satisfies the Condition, for each of the 14 operators
Satisfies(r, c) ==
    LET x  == r[c.Key]
        vs == c.Values.vals
        In == \E i \in 1..Len(vs) : SqlEq(c.Key, x, vs[i])
        Between == Len(vs) = 2 /\ x.k # "nil" /\ ~SqlLess(x, vs[1]) /\ ~SqlLess(vs[2], x)
    IN  CASE c.Op = "OpEq" -> SqlEq(c.Key, x, vs[1])
          [] c.Op = "OpNe" -> x.k # "nil" /\ ~SqlEq(c.Key, x, vs[1])
          [] c.Op = "OpGt" -> SqlLess(vs[1], x)
          [] c.Op = "OpGe" -> x.k # "nil" /\ ~SqlLess(x, vs[1])
          [] c.Op = "OpLt" -> SqlLess(x, vs[1])
          [] c.Op = "OpLe" -> x.k # "nil" /\ ~SqlLess(vs[1], x)
          [] c.Op = "OpIn" -> In
          [] c.Op = "OpNotIn" -> x.k # "nil" /\ ~In
          [] c.Op = "OpIsNull" -> x.k = "nil"
          [] c.Op = "OpIsNotNull" -> x.k # "nil"
          [] c.Op = "OpBetween" -> Between
          [] c.Op = "OpNotBetween" -> x.k # "nil" /\ ~Between
          [] c.Op = "OpLike" -> x.k # "nil" /\ Like(x.s, vs[1].s)
          [] c.Op = "OpNotLike" -> x.k # "nil" /\ ~Like(x.s, vs[1].s)

(***************************************************************************)
(* buildCondition and deleteOperation                                      *)
(***************************************************************************)
\* buildCondition(param, startIndex): the SQL text as [Key, sql, first], where
\* the placeholders are $first .. $first+Len(values)-1, and the values;
\* sql = "" is the empty condition string
BuildCondition(param, startIndex) ==
    LET One(sql) == [condition |-> [Key |-> param.Key, sql |-> sql, first |-> startIndex],
                     values |-> <<param.Values>>]
        None     == [condition |-> [Key |-> param.Key, sql |-> "", first |-> startIndex],
                     values |-> <<>>]
    IN  CASE param.Op = "OpEq" -> One("=")
          [] param.Op = "OpNe" -> One("!=")
          [] param.Op = "OpGt" -> One(">")
          [] param.Op = "OpGe" -> One(">=")
          [] param.Op = "OpLt" -> One("<")
          [] param.Op = "OpLe" -> One("<=")
          [] param.Op = "OpIn" ->
                IF param.Values.list /\ Len(param.Values.vals) > 0
                THEN [condition |-> [Key |-> param.Key, sql |-> "IN", first |-> startIndex],
                      values |-> [i \in 1..Len(param.Values.vals) |-> Scalar(param.Values.vals[i])]]
                ELSE None
          [] OTHER -> None

\* the loop of deleteOperation over params.ConditionParams: the conditions
\* kept and the bound values, in order
RECURSIVE BuildWhere(_)
BuildWhere(conditionParams) ==
    IF Len(conditionParams) = 0 THEN [conditions |-> <<>>, values |-> <<>>]
    ELSE
        LET w == BuildWhere(SubSeq(conditionParams, 1, Len(conditionParams) - 1))
            b == BuildCondition(conditionParams[Len(conditionParams)], Len(w.values) + 1)
        IN  IF b.condition.sql # ""
            THEN [conditions |-> Append(w.conditions, b.condition),
                  values |-> w.values \o b.values]
            ELSE w

\* the database's evaluation of one built condition on a row; a bound value
\* that is a []any is no scalar the comparison could hold for
SqlHolds(r, cond, values, last) ==
    LET x == r[cond.Key]
        p == values[cond.first]
    IN  CASE cond.sql = "="  -> ~p.list /\ SqlEq(cond.Key, x, p.vals[1])
          [] cond.sql = "!=" -> ~p.list /\ x.k # "nil" /\ ~SqlEq(cond.Key, x, p.vals[1])
          [] cond.sql = ">"  -> ~p.list /\ SqlLess(p.vals[1], x)
          [] cond.sql = ">=" -> ~p.list /\ x.k # "nil" /\ ~SqlLess(x, p.vals[1])
          [] cond.sql = "<"  -> ~p.list /\ SqlLess(x, p.vals[1])
          [] cond.sql = "<=" -> ~p.list /\ x.k # "nil" /\ ~SqlLess(p.vals[1], x)
          [] cond.sql = "IN" ->
                \E i \in cond.first..last : SqlEq(cond.Key, x, values[i].vals[1])

\* DELETE FROM table [WHERE c1 AND c2 ...]: the rows the statement removes
DeleteWhere(table, w) ==
    {r \in table :
        \A i \in 1..Len(w.conditions) :
            SqlHolds(r, w.conditions[i], w.values,
                     IF i < Len(w.conditions) THEN w.conditions[i + 1].first - 1
                     ELSE Len(w.values))}

\* DELETE FROM table WHERE primaryKey IN ($1, ...)
DeleteIn(table, primaryKey, ids) ==
    {r \in table : \E i \in 1..Len(ids) : SqlEq(primaryKey, r[primaryKey], ids[i])}

DeleteResult(n) == [NoResult EXCEPT !.kind = "deleted", !.deleted_count = n]
ErrResult(msg)  == [NoResult EXCEPT !.kind = "error", !.err = msg]
RowResult(row)  == [NoResult EXCEPT !.kind = "row", !.row = row]

\* ctx.BodyParser(&deleteReq): [err, ids]. A body that is no JSON fails; a JSON
\* object decodes, its member "ids" into IDs when it is an array, IDs staying
\* nil when the member is absent or null, and fails when it is anything else
BodyParserDeleteRequest(b) ==
    IF b.kind # "json" THEN [err |-> TRUE, ids |-> <<>>]
    ELSE IF nIds \notin DOMAIN b.obj \/ b.obj[nIds] = Scalar(NilVal)
    THEN [err |-> FALSE, ids |-> <<>>]
    ELSE IF b.obj[nIds].list THEN [err |-> FALSE, ids |-> b.obj[nIds].vals]
    ELSE [err |-> TRUE, ids |-> <<>>]

\* the ParseRequestFunc of PathDelete: BodyParser into a DeleteRequest first,
\* the query parameters only when that fails
DeleteParseRequest ==
    /\ pc = "start"
    /\ LET r == BodyParserDeleteRequest(body) IN
       IF ~r.err
       THEN /\ ret' = DeleteRequestRet(r.ids)
            /\ pc' = "parsed"
       ELSE /\ ret' = ret
            /\ pc' = "parse"
    /\ UNCHANGED <<query, queryParams, body, rows, result, idParam, stmt, keyIn, keyOut, cTransferMap, tdInput, transfers, response, config, dbs, routes, cmInit, cmErr, method, ctxPath, matched, tableInfo, columnLock, qbCache, fetches, calls, opPath, primaryKeys, concurrent, mu, reqs, upd, closed, generation>>

\* deleteOperation: the DataOperationFunc of PathDelete
DeleteOperation ==
    /\ pc = "parsed"
    /\ ~ret.err
    /\ ret.kind \in {"DeleteRequest", "QueryParams"}
    /\ IF Len(PrimaryKeys) = 0
       THEN \* tableInfo.PrimaryKeys[0] of an empty slice: index out of range
            /\ pc' = "panic"
            /\ UNCHANGED <<rows, stmt, result>>
       ELSE
         /\ pc' = "done"
         /\ LET primaryKey == PrimaryKeys[1] IN
            IF primaryKey = <<>>
            THEN /\ result' = ErrResult("table has no primary key")
                 /\ UNCHANGED <<rows, stmt>>
            ELSE IF ret.kind = "DeleteRequest" THEN
                 IF Len(ret.ids) = 0
                 THEN /\ result' = ErrResult("ids cannot be empty")
                      /\ UNCHANGED <<rows, stmt>>
                 ELSE LET gone == DeleteIn(rows, primaryKey, ret.ids) IN
                      /\ rows' = rows \ gone
                      /\ stmt' = Statement("delete", Scalar(NilVal), <<>>)
                      /\ result' = DeleteResult(Cardinality(gone))
            ELSE LET gone == DeleteWhere(rows, BuildWhere(ret.params.ConditionParams)) IN
                 /\ rows' = rows \ gone
                 /\ stmt' = Statement("delete", Scalar(NilVal), <<>>)
                 /\ result' = DeleteResult(Cardinality(gone))
    /\ UNCHANGED <<query, queryParams, ret, body, idParam, keyIn, keyOut, cTransferMap, tdInput, transfers, response, config, dbs, routes, cmInit, cmErr, method, ctxPath, matched, tableInfo, columnLock, qbCache, fetches, calls, opPath, primaryKeys, concurrent, mu, reqs, upd, closed, generation>>

(***************************************************************************)
(* SpecDelete: one request to PathDelete                                   *)
(***************************************************************************)
sNe         == <<"n","e">>
sGe         == <<"g","e">>
sLt         == <<"l","t">>
sLe         == <<"l","e">>
sNotIn      == <<"n","o","t","I","n">>
sIsNull     == <<"i","s","N","u","l","l">>
sIsNotNull  == <<"i","s","N","o","t","N","u","l","l">>
sNotBetween == <<"n","o","t","B","e","t","w","e","e","n">>
sNotLike    == <<"n","o","t","L","i","k","e">>

v30     == <<"3","0">>
v20c30  == <<"2","0",",","3","0">>
vAPct   == <<"A","%">>

DeleteArgs ==
    {<<K(nAge, sEq), v20>>, <<K(nAge, sNe), v20>>, <<K(nAge, sGt), v20>>,
     <<K(nAge, sGe), v30>>, <<K(nAge, sLt), v30>>, <<K(nAge, sLe), v20>>,
     <<K(nAge, sIn), v20c30>>, <<K(nAge, sIn), v20>>, <<K(nAge, sNotIn), v20c30>>,
     <<K(nName, sIsNull), vTrue>>, <<K(nName, sIsNotNull), vTrue>>,
     <<K(nAge, sBetween), v10c20>>, <<K(nAge, sNotBetween), v10c20>>,
     <<K(nName, sLike), vAPct>>, <<K(nName, sNotLike), vAPct>>,
     <<K(nUserName, sEq), vAlName>>}

DeleteBodies ==
    {NoBody,
     JsonBody([m \in {nIds} |-> List(<<FloatVal(1, 0), FloatVal(2, 0)>>)]),
     JsonBody([m \in {nIds} |-> List(<<>>)]),
     JsonBody([m \in {nName} |-> Scalar(StrVal(vAlName))])}

InitDelete ==
    /\ pc = "start"
    /\ body \in DeleteBodies
    /\ rows = InitialRows
    /\ query = <<>>
    /\ queryParams = NewQueryParams
    /\ ret = NoRet
    /\ result = NoResult
    /\ idParam = <<>>
    /\ stmt = NoStatement
    /\ keyIn = <<>>
    /\ keyOut = NoKeyOp
    /\ cTransferMap = TransferMap
    /\ tdInput = <<>>
    /\ transfers = <<>>
    /\ response = NoResponse
    /\ config = NoConfig
    /\ dbs = {}
    /\ routes = <<>>
    /\ cmInit = FALSE
    /\ cmErr = ""
    /\ method = ""
    /\ ctxPath = <<>>
    /\ matched = <<>>
    /\ tableInfo = <<>>
    /\ columnLock = 0
    /\ qbCache = <<>>
    /\ fetches = 0
    /\ calls = <<>>
    /\ opPath = <<>>
    /\ primaryKeys = <<nId>>
    /\ concurrent = <<>>
    /\ mu = FreeMutex
    /\ reqs = <<>>
    /\ upd = NoUpdate
    /\ closed = {}
    /\ generation = 0

VisitAllDelete == VisitAllFrom(DeleteArgs)

NextDelete ==
    \/ DeleteParseRequest
    \/ VisitAllDelete
    \/ RequestToQueryParamsTransfer
    \/ DeleteOperation

SpecDelete == InitDelete /\ [][NextDelete]_vars

(***************************************************************************)
(* requestToMap, transferData and isPrimaryKeyValid                        *)
(***************************************************************************)
\* the orders in which a range over the map m may visit its keys
RangeOrders(m) ==
    {o \in [1..Cardinality(DOMAIN m) -> DOMAIN m] :
        \A i, j \in DOMAIN o : o[i] = o[j] => i = j}

\* c.reverseMap(): storage field name -> API field name; where two API names
\* share a storage name the one visited last stays
reverseMap(transferMap, order) ==
    [d \in {transferMap[a] : a \in DOMAIN transferMap} |->
        LET last == CHOOSE i \in DOMAIN order :
                        /\ transferMap[order[i]] = d
                        /\ \A j \in DOMAIN order : transferMap[order[j]] = d => j <= i
        IN  order[last]]

\* c.transferData(input, reverse), with order the order in which the range
\* over c.TransferMap visits it: "id" is copied first; each mapped field found
\* in the input is written under its other name (API -> storage, or storage
\* -> API when reverse), a later write replacing an earlier one; the fields
\* the map does not name, "id" apart, are written last
transferData(transferMap, input, reverse, order) ==
    LET from(a)   == IF reverse THEN transferMap[a] ELSE a
        to(a)     == IF reverse THEN a ELSE transferMap[a]
        mapped(k) == IF reverse THEN k \in DOMAIN reverseMap(transferMap, order)
                     ELSE k \in DOMAIN transferMap
        withId    == [k \in {nId} \cap DOMAIN input |-> input[k]]
        moved[n \in 0..Len(order)] ==
            IF n = 0 THEN withId
            ELSE IF from(order[n]) \in DOMAIN input
            THEN [k \in DOMAIN moved[n - 1] \cup {to(order[n])} |->
                    IF k = to(order[n]) THEN input[from(order[n])] ELSE moved[n - 1][k]]
            ELSE moved[n - 1]
        output    == moved[Len(order)]
        kept      == {k \in DOMAIN input : ~mapped(k) /\ k # nId}
    IN  [k \in DOMAIN output \cup kept |-> IF k \in kept THEN input[k] ELSE output[k]]

\* math.Abs(m * 10^e) > 1e-10
AbsAbove1e10(m, e) ==
    LET a == IF m < 0 THEN 0 - m ELSE m IN
    IF a = 0 THEN FALSE
    ELSE IF e >= 0 - 10 THEN ~(a = 1 /\ e = 0 - 10)
    ELSE a > Pow10(0 - 10 - e)

\* isPrimaryKeyValid(value). In the case that lists the integer types v keeps
\* the static type any, so v != 0 compares the interface value with int(0):
\* it is false only for a dynamic type int holding 0
isPrimaryKeyValid(value) ==
    IF value.list THEN TRUE
    ELSE LET v == value.vals[1] IN
         CASE v.k = "nil"    -> FALSE
           [] v.k = "string" -> v.s # <<>> /\ v.s # <<"0">>
           [] v.k = "int"    -> v.n # 0
           [] v.k \in {"int64", "int32", "int16", "int8",
                       "uint", "uint64", "uint32", "uint16", "uint8"} -> TRUE
           [] v.k \in {"float32", "float64"} -> AbsAbove1e10(v.n, v.e)
           [] OTHER -> TRUE

\* ctx.BodyParser(&data) into a map[string]any: [err, data]; a JSON number
\* decodes to a float64
BodyParserMap(b) ==
    IF b.kind # "json" THEN [err |-> TRUE, data |-> <<>>]
    ELSE [err |-> FALSE, data |-> b.obj]

\* data[k] = v
MapPut(data, k, v) ==
    [f \in DOMAIN data \cup {k} |-> IF f = k THEN v ELSE data[f]]

\* delete(data, k)
MapDelete(data, k) ==
    [f \in DOMAIN data \ {k} |-> data[f]]

\* requestToMap: the ParseRequestFunc of PathSave
RequestToMap ==
    /\ pc = "start"
    /\ LET r == BodyParserMap(body) IN
       IF r.err
       THEN /\ ret' = ErrRet
            /\ result' = ErrResult("invalid request body")
            /\ pc' = "done"
       ELSE LET id   == ParseInt(idParam, 64)
                data == IF idParam # <<>> /\ ~id.err
                        THEN MapPut(r.data, nId, Scalar(IntVal("int64", id.n)))
                        ELSE r.data
            IN  /\ \E order \in RangeOrders(cTransferMap) :
                        ret' = MapRet(transferData(cTransferMap, data, FALSE, order))
                /\ result' = result
                /\ pc' = "parsed"
    /\ UNCHANGED <<query, queryParams, body, rows, idParam, stmt, keyIn, keyOut, cTransferMap, tdInput, transfers, response, config, dbs, routes, cmInit, cmErr, method, ctxPath, matched, tableInfo, columnLock, qbCache, fetches, calls, opPath, primaryKeys, concurrent, mu, reqs, upd, closed, generation>>

(***************************************************************************)
(* the row store behind gom: INSERT ... RETURNING *, UPDATE, SELECT        *)
(***************************************************************************)
\* the value a column takes from a bound parameter: [err, val]
StoreValue(column, x) ==
    LET Ok(v) == [err |-> FALSE, val |-> v]
        Bad   == [err |-> TRUE, val |-> NilVal]
        t     == columnCache[column].DataType
    IN  IF x.list THEN Bad
        ELSE LET v == x.vals[1] IN
             IF v.k = "nil" THEN Ok(NilVal)
             ELSE IF NumericColumn(column) THEN
                  CASE v.k = "string" ->
                         LET r == ParseInt(v.s, 64) IN
                         IF r.err THEN Bad ELSE Ok(IntVal("int64", r.n))
                    [] v.k = "float64" ->
                         IF v.e >= 0 THEN Ok(IntVal("int64", v.n * Pow10(v.e)))
                         ELSE IF v.n = 0 THEN Ok(IntVal("int64", 0)) ELSE Bad
                    [] v.k \in {"int", "int64"} -> Ok(IntVal("int64", v.n))
                    [] OTHER -> Bad
             ELSE IF t = "time.Time" THEN
                  CASE v.k = "time.Time" -> Ok(v)
                    [] v.k = "string" ->
                         IF parseTimeWithMultipleFormats(v.s).err THEN Bad ELSE Ok(TimeVal(v.s))
                    [] OTHER -> Bad
             ELSE IF t = "bool" THEN (IF v.k = "bool" THEN Ok(v) ELSE Bad)
             ELSE IF v.k = "string" THEN Ok(v) ELSE Bad

\* the fields of a statement the store cannot take: an unknown column, or a
\* value the column cannot hold
BadFields(fields) ==
    \E f \in DOMAIN fields :
        f \notin DOMAIN columnCache \/ StoreValue(f, fields[f]).err

\* the next value of the auto-increment primary key
NextId(table) ==
    LET ids == {r[nId].n : r \in table} \cup {0} IN
    1 + CHOOSE m \in ids : \A n \in ids : n <= m

\* INSERT INTO table (fields) VALUES (...) RETURNING *: [err, row]
InsertRow(table, primaryKey, fields) ==
    LET row == [c \in DOMAIN columnCache |->
                    IF c \in DOMAIN fields THEN StoreValue(c, fields[c]).val
                    ELSE IF c = primaryKey THEN IntVal("int64", NextId(table))
                    ELSE NilVal]
    IN  IF BadFields(fields) THEN [err |-> TRUE, row |-> <<>>]
        ELSE IF row[primaryKey].k = "nil"
                \/ \E r \in table : r[primaryKey] = row[primaryKey]
        THEN [err |-> TRUE, row |-> <<>>]
        ELSE [err |-> FALSE, row |-> row]

\* the rows WHERE primaryKey = value selects
SelectWhere(table, primaryKey, value) ==
    LET p == StoreValue(primaryKey, value) IN
    IF p.err \/ p.val.k = "nil" THEN {}
    ELSE {r \in table : r[primaryKey] = p.val}

\* UPDATE table SET fields WHERE primaryKey = value: [err, table]
UpdateRows(table, primaryKey, value, fields) ==
    LET hit == SelectWhere(table, primaryKey, value)
        Set(r) == [c \in DOMAIN r |->
                      IF c \in DOMAIN fields THEN StoreValue(c, fields[c]).val ELSE r[c]]
    IN  IF BadFields(fields) \/ StoreValue(primaryKey, value).err
        THEN [err |-> TRUE, table |-> table]
        ELSE [err |-> FALSE, table |-> (table \ hit) \cup {Set(r) : r \in hit}]

(***************************************************************************)
(* saveOperation                                                           *)
(***************************************************************************)
updateTimeFieldNames ==
    <<<<"u","p","d","a","t","e","_","a","t">>,
      <<"u","p","d","a","t","e","d","_","a","t">>,
      <<"u","p","d","a","t","e","_","t","i","m","e">>,
      <<"m","o","d","i","f","i","c","a","t","i","o","n","_","t","i","m","e">>,
      <<"m","o","d","i","f","i","e","d","_","a","t">>>>

\* shouldFill, filling only what the body left out
shouldFillAbsentOnly(data, fieldName) ==
    IF fieldName \notin DOMAIN data THEN TRUE
    ELSE data[fieldName] = Scalar(NilVal)

\* shouldFill of the insert branch: the field is absent or nil, an empty or
\* unparsable string, a zero time.Time, or a value of any other type
shouldFill(data, fieldName) ==
    IF fieldName \notin DOMAIN data THEN TRUE
    ELSE IF data[fieldName].list THEN TRUE
    ELSE LET v == data[fieldName].vals[1] IN
         CASE v.k = "nil"       -> TRUE
           [] v.k = "string"    -> v.s = <<>> \/ parseTimeWithMultipleFormats(v.s).err
           [] v.k = "time.Time" -> v.s = <<>>
           [] OTHER             -> TRUE

\* the time fields saveOperation sets to time.Now() before the write
FillTimeFields(columnInfo, data, isUpdate) ==
    LET fill == IF ~isUpdate
                THEN {f \in DOMAIN columnInfo :
                        isTimeField(columnInfo[f].DataType) /\ shouldFill(data, f)}
                ELSE {f \in DOMAIN columnInfo :
                        /\ \E i \in 1..Len(updateTimeFieldNames) : updateTimeFieldNames[i] = f
                        /\ isTimeField(columnInfo[f].DataType)
                        /\ (f \notin DOMAIN data \/ data[f] = Scalar(NilVal))}
    IN  [f \in DOMAIN data \cup fill |-> IF f \in fill THEN Scalar(now) ELSE data[f]]

\* saveOperation up to and including its write: the UPDATE, or the INSERT
\* with its RETURNING row
SaveOperation ==
    /\ pc = "parsed"
    /\ ~ret.err
    /\ ret.kind = "map"
    /\ IF Len(PrimaryKeys) = 0
       THEN /\ result' = ErrResult("table has no primary key")
            /\ pc' = "done"
            /\ UNCHANGED <<rows, stmt>>
       ELSE
       LET primaryKey == PrimaryKeys[1]
           isUpdate   == primaryKey \in DOMAIN ret.data /\ isPrimaryKeyValid(ret.data[primaryKey])
           data       == FillTimeFields(columnCache,
                             IF isUpdate THEN MapDelete(ret.data, primaryKey) ELSE ret.data,
                             isUpdate)
       IN  IF isUpdate
           THEN LET u == UpdateRows(rows, primaryKey, ret.data[primaryKey], data) IN
                /\ stmt' = Statement("update", ret.data[primaryKey], data)
                /\ rows' = u.table
                /\ IF u.err
                   THEN result' = ErrResult("update") /\ pc' = "done"
                   ELSE result' = result /\ pc' = "retrieve"
           ELSE LET i == InsertRow(rows, primaryKey, data) IN
                /\ stmt' = Statement("insert", Scalar(NilVal), data)
                /\ pc' = "done"
                /\ IF i.err
                   THEN result' = ErrResult("insert") /\ rows' = rows
                   ELSE /\ \E order \in RangeOrders(cTransferMap) :
                            result' = RowResult(transferData(cTransferMap, i.row, TRUE, order))
                        /\ rows' = rows \cup {i.row}
    /\ UNCHANGED <<query, queryParams, ret, body, idParam, keyIn, keyOut, cTransferMap, tdInput, transfers, response, config, dbs, routes, cmInit, cmErr, method, ctxPath, matched, tableInfo, columnLock, qbCache, fetches, calls, opPath, primaryKeys, concurrent, mu, reqs, upd, closed, generation>>

\* the re-read giving the empty object when it finds no row
SaveRetrieveEmptyOnMiss ==
    /\ pc = "retrieve"
    /\ pc' = "done"
    /\ LET found == SelectWhere(rows, PrimaryKeys[1], stmt.filter) IN
       IF found = {}
       THEN result' = RowResult(<<>>)
       ELSE \E order \in RangeOrders(cTransferMap) :
                result' = RowResult(transferData(cTransferMap, CHOOSE r \in found : TRUE, TRUE, order))
    /\ UNCHANGED <<query, queryParams, ret, body, rows, idParam, stmt, keyIn, keyOut, cTransferMap, tdInput, transfers, response, config, dbs, routes, cmInit, cmErr, method, ctxPath, matched, tableInfo, columnLock, qbCache, fetches, calls, opPath, primaryKeys, concurrent, mu, reqs, upd, closed, generation>>

\* the rest of the update branch: chain.First() under the same WHERE, and
\* the reverse translation of the row it finds
SaveRetrieve ==
    /\ pc = "retrieve"
    /\ pc' = "done"
    /\ LET found == SelectWhere(rows, PrimaryKeys[1], stmt.filter) IN
       IF found = {}
       THEN result' = ErrResult("failed to retrieve updated data")
       ELSE \E order \in RangeOrders(cTransferMap) :
                result' = RowResult(transferData(cTransferMap, CHOOSE r \in found : TRUE, TRUE, order))
    /\ UNCHANGED <<query, queryParams, ret, body, rows, idParam, stmt, keyIn, keyOut, cTransferMap, tdInput, transfers, response, config, dbs, routes, cmInit, cmErr, method, ctxPath, matched, tableInfo, columnLock, qbCache, fetches, calls, opPath, primaryKeys, concurrent, mu, reqs, upd, closed, generation>>

(***************************************************************************)
(* SpecSave: one request to PathSave                                       *)
(***************************************************************************)
vX == <<"X">>

\* the values a body gives "id"
SaveIds ==
    {NilVal, StrVal(<<>>), StrVal(v0), StrVal(v2),
     FloatVal(0, 0), FloatVal(2, 0), FloatVal(9, 0), FloatVal(5, 0 - 11)}

SaveBodies ==
    {NoBody}
    \cup {JsonBody(obj) : obj \in
            {<<>>, [m \in {nUserName} |-> Scalar(StrVal(vX))]}}
    \cup {JsonBody([m \in {nId} |-> Scalar(id)]) : id \in SaveIds}
    \cup {JsonBody([m \in {nId, nUserName} |->
                        IF m = nId THEN Scalar(id) ELSE Scalar(StrVal(vX))]) : id \in SaveIds}

vDate == <<"2","0","2","4","-","0","1","-","1","5">>

\* the values a body gives a time field
SaveTimes ==
    {NilVal, StrVal(<<>>), StrVal(vAbc), StrVal(vDate), FloatVal(5, 0)}

\* bodies that give one time field a value, without "id" and with the id of
\* a stored row
SaveTimeBodies ==
    {JsonBody([m \in {f} |-> Scalar(t)]) :
        f \in {nCreatedAt, nUpdatedAt, nBirthday}, t \in SaveTimes}
    \cup {JsonBody([m \in {nId, f} |-> IF m = nId THEN Scalar(FloatVal(2, 0)) ELSE Scalar(t)]) :
        f \in {nCreatedAt, nUpdatedAt, nBirthday}, t \in SaveTimes}

IdParams == {<<>>, v0, v2}

InitSave ==
    /\ pc = "start"
    /\ body \in SaveBodies \cup SaveTimeBodies
    /\ idParam \in IdParams
    /\ rows = InitialRows
    /\ query = <<>>
    /\ queryParams = NewQueryParams
    /\ ret = NoRet
    /\ result = NoResult
    /\ stmt = NoStatement
    /\ keyIn = <<>>
    /\ keyOut = NoKeyOp
    /\ cTransferMap = TransferMap
    /\ tdInput = <<>>
    /\ transfers = <<>>
    /\ response = NoResponse
    /\ config = NoConfig
    /\ dbs = {}
    /\ routes = <<>>
    /\ cmInit = FALSE
    /\ cmErr = ""
    /\ method = ""
    /\ ctxPath = <<>>
    /\ matched = <<>>
    /\ tableInfo = <<>>
    /\ columnLock = 0
    /\ qbCache = <<>>
    /\ fetches = 0
    /\ calls = <<>>
    /\ opPath = <<>>
    /\ primaryKeys = <<nId>>
    /\ concurrent = <<>>
    /\ mu = FreeMutex
    /\ reqs = <<>>
    /\ upd = NoUpdate
    /\ closed = {}
    /\ generation = 0

NextSave ==
    \/ RequestToMap
    \/ SaveOperation
    \/ SaveRetrieve

SpecSave == InitSave /\ [][NextSave]_vars

(***************************************************************************)
(* SpecTransfer: transferData called on a map, and again on what it gave   *)
(***************************************************************************)
\* the number of transferData calls made in a row
MaxTransfers == 2

FieldNames == {nId, nName, nUserName}

\* every c.TransferMap over the names: any API names to any storage names
FieldMaps ==
    UNION {[dom -> FieldNames] : dom \in SUBSET FieldNames}

\* the maps passed: any set of fields, each holding a value of its own
InputMaps ==
    {[k \in dom |-> Scalar(StrVal(k))] : dom \in SUBSET FieldNames}

InitTransfer ==
    /\ pc = "transfer"
    /\ cTransferMap \in FieldMaps
    /\ tdInput \in InputMaps
    /\ transfers = <<>>
    /\ query = <<>>
    /\ queryParams = NewQueryParams
    /\ ret = NoRet
    /\ body = NoBody
    /\ rows = {}
    /\ result = NoResult
    /\ idParam = <<>>
    /\ stmt = NoStatement
    /\ keyIn = <<>>
    /\ keyOut = NoKeyOp
    /\ response = NoResponse
    /\ config = NoConfig
    /\ dbs = {}
    /\ routes = <<>>
    /\ cmInit = FALSE
    /\ cmErr = ""
    /\ method = ""
    /\ ctxPath = <<>>
    /\ matched = <<>>
    /\ tableInfo = <<>>
    /\ columnLock = 0
    /\ qbCache = <<>>
    /\ fetches = 0
    /\ calls = <<>>
    /\ opPath = <<>>
    /\ primaryKeys = <<nId>>
    /\ concurrent = <<>>
    /\ mu = FreeMutex
    /\ reqs = <<>>
    /\ upd = NoUpdate
    /\ closed = {}
    /\ generation = 0

\* one call of c.transferData(data, reverse), on the map first passed or on
\* the output of the call before
CallTransferData(reverse) ==
    /\ pc = "transfer"
    /\ Len(transfers) < MaxTransfers
    /\ LET data == IF transfers = <<>> THEN tdInput
                   ELSE transfers[Len(transfers)].output
       IN  \E order \in RangeOrders(cTransferMap) :
               transfers' = Append(transfers,
                   [input |-> data, reverse |-> reverse,
                    output |-> transferData(cTransferMap, data, reverse, order)])
    /\ UNCHANGED <<pc, query, queryParams, ret, body, rows, result, idParam, stmt, keyIn, keyOut, cTransferMap, tdInput, response, config, dbs, routes, cmInit, cmErr, method, ctxPath, matched, tableInfo, columnLock, qbCache, fetches, calls, opPath, primaryKeys, concurrent, mu, reqs, upd, closed, generation>>

TransferForward == CallTransferData(FALSE)
TransferReverse == CallTransferData(TRUE)

NextTransfer ==
    \/ TransferForward
    \/ TransferReverse

SpecTransfer == InitTransfer /\ [][NextTransfer]_vars

(***************************************************************************)
(* getOperation and the response of PathGet                                *)
(***************************************************************************)
\* the rows chain.Where(v.Key, v.Op, v.Values), for every condition, selects
WhereAll(table, conditionParams) ==
    {r \in table :
        \A i \in 1..Len(conditionParams) : Satisfies(r, conditionParams[i])}

\* getOperation with an empty selection reported as an error
GetOperationNoRowsFails ==
    /\ pc = "parsed"
    /\ ~ret.err
    /\ ret.kind = "QueryParams"
    /\ pc' = "operated"
    /\ stmt' = Statement("select", Scalar(NilVal), <<>>)
    /\ LET found == WhereAll(rows, ret.params.ConditionParams) IN
       IF found = {}
       THEN result' = ErrResult("get failed")
       ELSE \E r \in found, order \in RangeOrders(cTransferMap) :
                result' = RowResult(transferData(cTransferMap, r, TRUE, order))
    /\ UNCHANGED <<query, queryParams, ret, body, rows, idParam, keyIn, keyOut, cTransferMap, tdInput, transfers, response, config, dbs, routes, cmInit, cmErr, method, ctxPath, matched, tableInfo, columnLock, qbCache, fetches, calls, opPath, primaryKeys, concurrent, mu, reqs, upd, closed, generation>>

\* getOperation: chain.First() under the conditions; no row, reported by the
\* store as a "no rows" error or as empty Data, gives the empty object, a row
\* is translated back to API names
GetOperation ==
    /\ pc = "parsed"
    /\ ~ret.err
    /\ ret.kind = "QueryParams"
    /\ pc' = "operated"
    /\ stmt' = Statement("select", Scalar(NilVal), <<>>)
    /\ LET found == WhereAll(rows, ret.params.ConditionParams) IN
       IF found = {}
       THEN result' = RowResult(<<>>)
       ELSE \E r \in found, order \in RangeOrders(cTransferMap) :
                result' = RowResult(transferData(cTransferMap, r, TRUE, order))
    /\ UNCHANGED <<query, queryParams, ret, body, rows, idParam, keyIn, keyOut, cTransferMap, tdInput, transfers, response, config, dbs, routes, cmInit, cmErr, method, ctxPath, matched, tableInfo, columnLock, qbCache, fetches, calls, opPath, primaryKeys, concurrent, mu, reqs, upd, closed, generation>>

\* the rest of RequestHandler.Handle for PathGet: TransferResultFunc, which
\* translates the map once more, and RenderResponseFunc
GetRenderResponse ==
    /\ pc = "operated"
    /\ pc' = "done"
    /\ IF result.kind = "error"
       THEN /\ response' = RenderErrs(result.err)
            /\ result' = result
       ELSE \E order \in RangeOrders(cTransferMap) :
                LET data == transferData(cTransferMap, result.row, TRUE, order) IN
                /\ result' = RowResult(data)
                /\ response' = RenderOk(ObjectData(data))
    /\ UNCHANGED <<query, queryParams, ret, body, rows, idParam, stmt, keyIn, keyOut, cTransferMap, tdInput, transfers, config, dbs, routes, cmInit, cmErr, method, ctxPath, matched, tableInfo, columnLock, qbCache, fetches, calls, opPath, primaryKeys, concurrent, mu, reqs, upd, closed, generation>>

(***************************************************************************)
(* SpecGet: one request to PathGet                                         *)
(***************************************************************************)
GetArgs ==
    {<<K(nAge, sEq), v20>>, <<K(nAge, sEq), v5>>, <<K(nUserAge, sGt), v20>>,
     <<K(nAge, sLt), v20>>, <<K(nAge, sBetween), v10c20>>,
     <<K(nName, sLike), vAPct>>, <<K(nName, sIsNull), vTrue>>,
     <<K(nUserName, sEq), vAlName>>, <<K(nUserName, sEq), vAbc>>,
     <<K(nBogus, sEq), v1>>, <<K(nUserAge, sGt), vAbc>>}

InitGet ==
    /\ pc = "parse"
    /\ rows = InitialRows
    /\ query = <<>>
    /\ queryParams = NewQueryParams
    /\ ret = NoRet
    /\ body = NoBody
    /\ result = NoResult
    /\ idParam = <<>>
    /\ stmt = NoStatement
    /\ keyIn = <<>>
    /\ keyOut = NoKeyOp
    /\ cTransferMap = TransferMap
    /\ tdInput = <<>>
    /\ transfers = <<>>
    /\ response = NoResponse
    /\ config = NoConfig
    /\ dbs = {}
    /\ routes = <<>>
    /\ cmInit = FALSE
    /\ cmErr = ""
    /\ method = ""
    /\ ctxPath = <<>>
    /\ matched = <<>>
    /\ tableInfo = <<>>
    /\ columnLock = 0
    /\ qbCache = <<>>
    /\ fetches = 0
    /\ calls = <<>>
    /\ opPath = <<>>
    /\ primaryKeys = <<nId>>
    /\ concurrent = <<>>
    /\ mu = FreeMutex
    /\ reqs = <<>>
    /\ upd = NoUpdate
    /\ closed = {}
    /\ generation = 0

VisitAllGet == VisitAllFrom(GetArgs)

NextGet ==
    \/ VisitAllGet
    \/ RequestToQueryParamsTransfer
    \/ GetOperation
    \/ GetRenderResponse

SpecGet == InitGet /\ [][NextGet]_vars

(***************************************************************************)
(* SpecKeyOp: KeyToKeyOp applied to one key                                *)
(***************************************************************************)
Segments == {<<>>, <<"a">>, sIn}

RECURSIVE JoinSegs(_)
JoinSegs(ss) ==
    IF Len(ss) = 1 THEN ss[1] ELSE ss[1] \o <<"_">> \o JoinSegs(Tail(ss))

FieldParts == UNION {{JoinSegs(ss) : ss \in [1..m -> Segments]} : m \in 1..MaxSegs}

\* the operator table as the documentation gives it: suffix -> operator
OpTable ==
    {<<sEq, "OpEq">>, <<<<"n","e">>, "OpNe">>, <<sGt, "OpGt">>, <<<<"g","e">>, "OpGe">>,
     <<<<"l","t">>, "OpLt">>, <<<<"l","e">>, "OpLe">>, <<sIn, "OpIn">>,
     <<<<"n","o","t","I","n">>, "OpNotIn">>,
     <<<<"i","s","N","u","l","l">>, "OpIsNull">>,
     <<<<"i","s","N","o","t","N","u","l","l">>, "OpIsNotNull">>,
     <<sBetween, "OpBetween">>,
     <<<<"n","o","t","B","e","t","w","e","e","n">>, "OpNotBetween">>,
     <<sLike, "OpLike">>, <<<<"n","o","t","L","i","k","e">>, "OpNotLike">>}

OtherSuffixes == {<<>>, <<"x","x">>, <<"E","Q">>, <<"n","o","t","i","n">>}

Keys == FieldParts \cup {K(f, e[1]) : f \in FieldParts, e \in OpTable}
                   \cup {K(f, x) : f \in FieldParts, x \in OtherSuffixes}

InitKeyOp ==
    /\ pc = "key"
    /\ keyIn \in Keys
    /\ keyOut = NoKeyOp
    /\ query = <<>>
    /\ queryParams = NewQueryParams
    /\ ret = NoRet
    /\ body = NoBody
    /\ rows = {}
    /\ result = NoResult
    /\ idParam = <<>>
    /\ stmt = NoStatement
    /\ cTransferMap = TransferMap
    /\ tdInput = <<>>
    /\ transfers = <<>>
    /\ response = NoResponse
    /\ config = NoConfig
    /\ dbs = {}
    /\ routes = <<>>
    /\ cmInit = FALSE
    /\ cmErr = ""
    /\ method = ""
    /\ ctxPath = <<>>
    /\ matched = <<>>
    /\ tableInfo = <<>>
    /\ columnLock = 0
    /\ qbCache = <<>>
    /\ fetches = 0
    /\ calls = <<>>
    /\ opPath = <<>>
    /\ primaryKeys = <<nId>>
    /\ concurrent = <<>>
    /\ mu = FreeMutex
    /\ reqs = <<>>
    /\ upd = NoUpdate
    /\ closed = {}
    /\ generation = 0

CallKeyToKeyOp ==
    /\ pc = "key"
    /\ pc' = "keydone"
    /\ keyOut' = KeyToKeyOp(keyIn)
    /\ UNCHANGED <<keyIn, query, queryParams, ret, body, rows, result, idParam, stmt, cTransferMap, tdInput, transfers, response, config, dbs, routes, cmInit, cmErr, method, ctxPath, matched, tableInfo, columnLock, qbCache, fetches, calls, opPath, primaryKeys, concurrent, mu, reqs, upd, closed, generation>>

NextKeyOp == CallKeyToKeyOp

SpecKeyOp == InitKeyOp /\ [][NextKeyOp]_vars

(***************************************************************************)
(* what the claims say, in the claims' own terms                           *)
(***************************************************************************)
ReservedKeys == {kPage, kPageSize, kOrderBy, kOrderByDesc}

HasUnderscore(k) == \E i \in 1..Len(k) : k[i] = "_"

\* the operator a suffix names, eq for a suffix the table does not hold
SuffixOp(suffix) ==
    IF \E e \in OpTable : e[1] = suffix
    THEN (CHOOSE e \in OpTable : e[1] = suffix)[2]
    ELSE "OpEq"

\* the (field, operator) a key stands for: split at the last underscore
KeyMeaning(k) ==
    IF ~HasUnderscore(k) THEN [field |-> k, op |-> "OpEq"]
    ELSE LET i == CHOOSE i \in 1..Len(k) :
                    k[i] = "_" /\ ~HasUnderscore(SubSeq(k, i + 1, Len(k)))
         IN  [field |-> SubSeq(k, 1, i - 1), op |-> SuffixOp(SubSeq(k, i + 1, Len(k)))]

StorageName(f) == IF f \in DOMAIN TransferMap THEN TransferMap[f] ELSE f

\* the comma-separated elements of a value, counted on the commas
NumElements(v) == Cardinality({i \in 1..Len(v) : v[i] = ","}) + 1

IsFilterArg(a) == a[1] \notin ReservedKeys

KnownColumn(a) == StorageName(KeyMeaning(a[1]).field) \in DOMAIN columnCache

\* some element of the arg's value fails the coercion to the column's type
Uncoercible(a) ==
    /\ IsFilterArg(a)
    /\ KnownColumn(a)
    /\ \E e \in {Split(a[2], ",")[i] : i \in 1..NumElements(a[2])} :
            TransferType(columnCache[StorageName(KeyMeaning(a[1]).field)], e).err

Accepted(a) == IsFilterArg(a) /\ KnownColumn(a) /\ ~Uncoercible(a)

\* an optional sign followed by one or more decimal digits
IsIntegerText(v) ==
    LET d == IF Len(v) > 0 /\ v[1] \in {"+", "-"} THEN Tail(v) ELSE v IN
    Len(d) > 0 /\ \A i \in 1..Len(d) : d[i] \in Digits

\* the parser run on a whole query string
RECURSIVE ParseAll(_)
ParseAll(q) ==
    IF Len(q) = 0 THEN NewQueryParams
    ELSE VisitAllCallback(ParseAll(SubSeq(q, 1, Len(q) - 1)), TransferMap, columnCache,
                          q[Len(q)][1], q[Len(q)][2])

ScenarioQuery == <<<<K(nUserName, sLike), vAl>>, <<K(nUserAge, sGt), v20>>>>

\* C1: the returned condition list holds one condition per accepted filter key,
\* in query-string order, each with the field-map-translated field and the
\* operator the key's suffix names; the scenario's query gives
\* [{name, like, "%Al%"}, {age, gt, 20}].
C1_ConditionsInQueryOrder ==
    pc = "parsed" =>
        LET acc   == SelectSeq(query, Accepted)
            conds == ret.params.ConditionParams
        IN  /\ Len(conds) = Len(acc)
            /\ \A i \in 1..Len(conds) :
                /\ conds[i].Key = StorageName(KeyMeaning(acc[i][1]).field)
                /\ conds[i].Op = KeyMeaning(acc[i][1]).op
            /\ query = ScenarioQuery =>
                conds = <<[Key |-> nName, Op |-> "OpLike", Values |-> Scalar(StrVal(vAl))],
                          [Key |-> nAge, Op |-> "OpGt", Values |-> Scalar(IntVal("int64", 20))]>>

C1_Witness ==
    /\ pc = "parsed"
    /\ query = ScenarioQuery
    /\ Len(ret.params.ConditionParams) = 2

\* C4: a page or pageSize value that is not an integer makes the parser return
\* an error.
C4_BadPageFailsRequest ==
    (/\ pc = "parsed"
     /\ \E i \in 1..Len(query) :
            query[i][1] \in {kPage, kPageSize} /\ ~IsIntegerText(query[i][2]))
        => ret.err

C6_UnknownFieldAbsent ==
    pc = "parsed" =>
        /\ ~ret.err
        /\ \A i \in 1..Len(ret.params.ConditionParams) :
                ret.params.ConditionParams[i].Key \in DOMAIN columnCache
        /\ Len(ret.params.ConditionParams) <=
              Cardinality({i \in 1..Len(query) : IsFilterArg(query[i]) /\ KnownColumn(query[i])})

C6_Witness ==
    /\ pc = "parsed"
    /\ \E i \in 1..Len(query) : IsFilterArg(query[i]) /\ ~KnownColumn(query[i])
    /\ \E i \in 1..Len(query) : Accepted(query[i])

\* the last integer value given for a key, as a sequence of zero or one number
LastInteger(q, key) ==
    LET idx == {i \in 1..Len(q) : q[i][1] = key /\ IsIntegerText(q[i][2])} IN
    IF idx = {} THEN <<>>
    ELSE <<Atoi(q[CHOOSE i \in idx : \A j \in idx : j <= i][2]).n>>

\* C7: an integer page below 1 is parsed as 1 and an integer pageSize below 1
\* as 10; integers of 1 or more are kept.
C7_PageClamped ==
    pc = "parsed" =>
        /\ \A n \in {LastInteger(query, kPage)[i] : i \in 1..Len(LastInteger(query, kPage))} :
                ret.params.Page = IF n < 1 THEN 1 ELSE n
        /\ \A n \in {LastInteger(query, kPageSize)[i] : i \in 1..Len(LastInteger(query, kPageSize))} :
                ret.params.PageSize = IF n < 1 THEN 10 ELSE n

C7_Witness ==
    /\ pc = "parsed"
    /\ query = <<<<kPage, vNeg5>>, <<kPageSize, v0>>>>
    /\ ret.params.Page = 1
    /\ ret.params.PageSize = 10

\* C8: the value of a condition is the bare coerced scalar when the arg has one
\* comma-separated element and the ordered list of the coerced elements when it
\* has two or more: userAge_between=10,20 gives [10,20], age_eq=5 gives 5.
C8_ScalarOrList ==
    pc = "parsed" =>
        LET acc   == SelectSeq(query, Accepted)
            conds == ret.params.ConditionParams
        IN  /\ Len(conds) = Len(acc)
            /\ \A i \in 1..Len(conds) :
                /\ conds[i].Values.list = (NumElements(acc[i][2]) >= 2)
                /\ Len(conds[i].Values.vals) = NumElements(acc[i][2])
                /\ acc[i] = <<K(nUserAge, sBetween), v10c20>> =>
                        conds[i].Values = List(<<IntVal("int64", 10), IntVal("int64", 20)>>)
                /\ acc[i] = <<K(nAge, sEq), v5>> =>
                        conds[i].Values = Scalar(IntVal("int64", 5))

C8_Witness ==
    /\ pc = "parsed"
    /\ query = <<<<K(nUserAge, sBetween), v10c20>>, <<K(nAge, sEq), v5>>>>
    /\ ret.params.ConditionParams[1].Values.list
    /\ ~ret.params.ConditionParams[2].Values.list

\* C9: KeyToKeyOp(k) is (k, eq) for a key without underscore; otherwise the
\* field is the text before the last underscore and the operator the one the
\* text after it names, eq when that text names none.
C9_KeyToKeyOp ==
    pc = "keydone" =>
        /\ ~HasUnderscore(keyIn) => keyOut = [field |-> keyIn, op |-> "OpEq"]
        /\ \A i \in 1..Len(keyIn) :
              (keyIn[i] = "_" /\ ~HasUnderscore(SubSeq(keyIn, i + 1, Len(keyIn)))) =>
                /\ keyOut.field = SubSeq(keyIn, 1, i - 1)
                /\ keyOut.op = SuffixOp(SubSeq(keyIn, i + 1, Len(keyIn)))

C9_Witness ==
    /\ pc = "keydone"
    /\ keyIn = <<"a","_","i","n","_","n","o","t","B","e","t","w","e","e","n">>
    /\ keyOut = [field |-> <<"a","_","i","n">>, op |-> "OpNotBetween"]

\* the translated comma-separated elements of every arg with the given key,
\* concatenated in query-string order
RECURSIVE OrderConcat(_, _)
OrderConcat(q, key) ==
    IF Len(q) = 0 THEN <<>>
    ELSE OrderConcat(SubSeq(q, 1, Len(q) - 1), key) \o
         (IF q[Len(q)][1] = key
          THEN [i \in 1..NumElements(q[Len(q)][2]) |-> StorageName(Split(q[Len(q)][2], ",")[i])]
          ELSE <<>>)

\* C10: OrderBy and OrderByDesc are the concatenation, in query-string order,
\* of the translated elements of every orderBy (orderByDesc) arg.
C10_OrderByAppends ==
    pc = "parsed" =>
        /\ ret.params.OrderBy = OrderConcat(query, kOrderBy)
        /\ ret.params.OrderByDesc = OrderConcat(query, kOrderByDesc)

\* C2: in condition mode every row the DELETE removed satisfies every
\* Condition of the parsed QueryRequest, whatever its operator.
C2_DeleteHonoursEveryCondition ==
    (pc = "done" /\ ret.kind = "QueryParams") =>
        \A r \in InitialRows \ rows :
            \A i \in 1..Len(ret.params.ConditionParams) :
                Satisfies(r, ret.params.ConditionParams[i])

\* the same, for requests whose conditions all use eq, ne, gt, ge, lt, le, or
\* in with two or more values: the operators buildCondition renders
C2_RenderedConditionsHonoured ==
    (/\ pc = "done"
     /\ ret.kind = "QueryParams"
     /\ \A i \in 1..Len(ret.params.ConditionParams) :
            LET c == ret.params.ConditionParams[i] IN
            \/ c.Op \in {"OpEq", "OpNe", "OpGt", "OpGe", "OpLt", "OpLe"}
            \/ c.Op = "OpIn" /\ c.Values.list)
        => /\ \A r \in InitialRows \ rows :
                \A i \in 1..Len(ret.params.ConditionParams) :
                    Satisfies(r, ret.params.ConditionParams[i])
           /\ \A r \in rows :
                \E i \in 1..Len(ret.params.ConditionParams) :
                    ~Satisfies(r, ret.params.ConditionParams[i])

\* a primary-key value as the claim reads it: non-nil, not the empty string
\* and not numeric zero
IsNumber(v) ==
    v.k \in {"int", "int64", "int32", "int16", "int8", "uint", "uint64",
             "uint32", "uint16", "uint8", "float32", "float64"}

SignificantKey(data, primaryKey) ==
    /\ primaryKey \in DOMAIN data
    /\ \/ data[primaryKey].list
       \/ LET v == data[primaryKey].vals[1] IN
          /\ v.k # "nil"
          /\ ~(v.k = "string" /\ v.s = <<>>)
          /\ ~(IsNumber(v) /\ v.n = 0)

\* C3: once save has issued its statement, that statement is an update
\* filtered by primary key = the supplied value, with the primary key removed
\* from the written fields, exactly when the translated body holds the
\* primary key with a value that is non-nil, not "" and not numeric zero; in
\* every other case the statement is an insert.
C3_UpdateExactlyOnSignificantKey ==
    stmt.op \in {"insert", "update"} =>
        LET primaryKey == PrimaryKeys[1] IN
        IF SignificantKey(ret.data, primaryKey)
        THEN /\ stmt.op = "update"
             /\ stmt.filter = ret.data[primaryKey]
             /\ primaryKey \notin DOMAIN stmt.fields
        ELSE stmt.op = "insert"

Injective(m) == \A a, b \in DOMAIN m : m[a] = m[b] => a = b

\* C11: for an injective field map and a map without "id", the translation to
\* storage names followed by the translation back gives the map again: every
\* key in the field map's domain under its original name with its original
\* value, every other key unchanged, and no other keys.
C11_RoundTrip ==
    (/\ Len(transfers) = 2
     /\ ~transfers[1].reverse
     /\ transfers[2].reverse
     /\ Injective(cTransferMap)
     /\ nId \notin DOMAIN tdInput)
        => transfers[2].output = tdInput

\* C12: each transferData call on a map holding "id" returns the input's id
\* value under "id" and under no other key.
C12_IdNeverTranslated ==
    \A i \in 1..Len(transfers) :
        LET c == transfers[i] IN
        (/\ nId \in DOMAIN c.input
         /\ \A k \in DOMAIN c.input \ {nId} : c.input[k] # c.input[nId])
            => /\ nId \in DOMAIN c.output
               /\ c.output[nId] = c.input[nId]
               /\ \A k \in DOMAIN c.output \ {nId} : c.output[k] # c.input[nId]

\* the columns of timestamp-like type, and the names of the creation-time and
\* update-time conventions
TimestampColumns == {c \in DOMAIN columnCache : columnCache[c].DataType = "time.Time"}

UpdateTimeNames ==
    {<<"u","p","d","a","t","e","_","a","t">>, <<"u","p","d","a","t","e","d","_","a","t">>,
     <<"u","p","d","a","t","e","_","t","i","m","e">>,
     <<"m","o","d","i","f","i","c","a","t","i","o","n","_","t","i","m","e">>,
     <<"m","o","d","i","f","i","e","d","_","a","t">>}

CreateTimeNames ==
    {<<"c","r","e","a","t","e","_","a","t">>, <<"c","r","e","a","t","e","d","_","a","t">>,
     <<"c","r","e","a","t","i","o","n","_","t","i","m","e">>,
     <<"c","r","e","a","t","e","_","t","i","m","e">>}

\* the body holds no usable value for f: absent, nil, "" or an unparsable string
NoUsableValue(data, f) ==
    \/ f \notin DOMAIN data
    \/ /\ ~data[f].list
       /\ LET v == data[f].vals[1] IN
          \/ v.k = "nil"
          \/ v.k = "string" /\ ~(LayoutDate(v.s) \/ LayoutCompactDate(v.s))

\* the body's value for f is not a string at all
NotAString(data, f) ==
    f \in DOMAIN data /\ (data[f].list \/ data[f].vals[1].k \notin {"nil", "string"})

\* the columns the statement of save carries the current time for
SetToNow == {f \in DOMAIN stmt.fields : stmt.fields[f] = Scalar(now)}

\* C13, as stated: on insert the columns set to the current time are exactly
\* the timestamp-like columns with a creation-time or update-time name for which
\* the body holds no usable value.
C13_InsertFillsConventionColumns ==
    stmt.op = "insert" =>
        SetToNow = {f \in TimestampColumns :
                        f \in CreateTimeNames \cup UpdateTimeNames /\ NoUsableValue(ret.data, f)}

\* C13, amended: on insert the columns set to the current time are exactly the
\* timestamp-like columns, whatever their name, for which the body holds no
\* usable value (absent, nil, "", an unparsable string, or a value that is no
\* string); every other field is written as the body gave it, so a parsable
\* timestamp string is never overwritten.
C13_InsertFillsEveryTimeColumn ==
    stmt.op = "insert" =>
        /\ SetToNow = {f \in TimestampColumns :
                            NoUsableValue(ret.data, f) \/ NotAString(ret.data, f)}
        /\ DOMAIN stmt.fields = DOMAIN ret.data \cup SetToNow
        /\ \A f \in DOMAIN ret.data \ SetToNow : stmt.fields[f] = ret.data[f]

C13_Witness ==
    /\ stmt.op = "insert"
    /\ nCreatedAt \in DOMAIN ret.data
    /\ ret.data[nCreatedAt] = Scalar(StrVal(<<>>))
    /\ SetToNow = {nCreatedAt, nUpdatedAt, nBirthday}

\* C14: on update a column is set to the current time if and only if it is a
\* timestamp-like column with an update-time name for which the body holds no
\* usable value (absent, nil, "" or an unparsable string).
C14_UpdateFillsUnusableUpdateTime ==
    stmt.op = "update" =>
        SetToNow = {f \in TimestampColumns :
                        f \in UpdateTimeNames /\ NoUsableValue(ret.data, f)}

C16_BatchIffIdList ==
    pc \in {"parsed", "done"} =>
        IF body.kind = "json" /\ nIds \in DOMAIN body.obj /\ body.obj[nIds].list
        THEN ret.kind = "DeleteRequest"
        ELSE ret.kind = "QueryParams"

(***************************************************************************)
(* SpecRoute: a CrudManager is built from a ServiceConfig, its catch-all    *)
(* route is registered under the group Mount, and one request is served    *)
(***************************************************************************)
PathSave   == <<"s","a","v","e">>
PathDelete == <<"d","e","l","e","t","e">>
PathGet    == <<"g","e","t">>
PathList   == <<"l","i","s","t">>
PathPage   == <<"p","a","g","e">>
PathTable  == <<"t","a","b","l","e">>

\* allHandlers of InitDefaultHandler: operation -> the handler's Method
allHandlers ==
    [o \in {PathSave, PathDelete, PathGet, PathList, PathPage, PathTable} |->
        IF o \in {PathSave, PathDelete} THEN "POST" ELSE "GET"]

\* c.HandlerMap after InitDefaultHandler: every default handler when
\* handlerFilters is empty, else those of allHandlers the filters name
HandlerMap(handlerFilters) ==
    IF Len(handlerFilters) = 0
    THEN allHandlers
    ELSE [o \in {handlerFilters[i] : i \in DOMAIN handlerFilters}
                    \cap DOMAIN allHandlers |-> allHandlers[o]]

\* NewCrud(prefix, table, db, ..., handlerFilters)
NewCrud(prefix, db, handlerFilters) ==
    [Prefix |-> prefix, Db |-> db, HandlerMap |-> HandlerMap(handlerFilters)]

\* strings.HasPrefix, strings.TrimPrefix
HasPrefix(s, prefix) ==
    Len(prefix) <= Len(s) /\ SubSeq(s, 1, Len(prefix)) = prefix
TrimPrefix(s, prefix) ==
    IF HasPrefix(s, prefix) THEN SubSeq(s, Len(prefix) + 1, Len(s)) ELSE s

\* s[strings.Index(s, sub):], for a sub that s contains: from the FIRST
\* place where sub occurs
FromFirst(s, sub) ==
    LET i == CHOOSE i \in 0..(Len(s) - Len(sub)) :
                /\ SubSeq(s, i + 1, i + Len(sub)) = sub
                /\ \A j \in 0..(i - 1) : SubSeq(s, j + 1, j + Len(sub)) # sub
    IN  SubSeq(s, i + 1, Len(s))

\* the group the manager's routes are registered under: app.Group("/api")
Mount == <<"/","a","p","i">>

\* c.Params("*") of the route Mount + "/*": what follows Mount and its slash
ParamsStar(path) == SubSeq(path, Len(Mount) + 2, Len(path))

vProducts     == <<"/","e","c","o","m","m","e","r","c","e","/","p","r","o","d","u","c","t","s">>
vCategories   == <<"/","e","c","o","m","m","e","r","c","e","/","c","a","t","e","g","o","r","i","e","s">>
vBareProducts == <<"e","c","o","m","m","e","r","c","e","/","p","r","o","d","u","c","t","s">>
vUsers        == <<"u","s","e","r","s">>
vBareApi      == <<"a","p","i">>
vFoo          == <<"f","o","o">>
vInvalidPath  == <<"/","i","n","v","a","l","i","d","/","p","a","t","h">>

DatabaseConfig(name, reachable) == [Name |-> name, Reachable |-> reachable]
TableConfig(database, pathPrefix, handlerFilters) ==
    [Database |-> database, PathPrefix |-> pathPrefix,
     HandlerFilters |-> handlerFilters]

\* the configurations a manager is built from: the one of
\* TestCrudManagerRouting, prefixes written without the leading slash, a
\* prefix that is also the name of the group, and a database that cannot be
\* connected
Configs ==
    { [Databases |-> <<DatabaseConfig("test_db", TRUE)>>,
       Tables |-> <<TableConfig("test_db", vProducts, <<PathSave, PathList>>),
                    TableConfig("test_db", vCategories, <<PathList, PathGet>>)>>],
      [Databases |-> <<DatabaseConfig("db1", TRUE), DatabaseConfig("db2", TRUE)>>,
       Tables |-> <<TableConfig("db1", vUsers, <<>>),
                    TableConfig("db2", vBareProducts, <<PathSave, PathList, vFoo>>)>>],
      [Databases |-> <<DatabaseConfig("db1", TRUE)>>,
       Tables |-> <<TableConfig("db1", vBareApi, <<PathSave, PathGet, PathList>>)>>],
      [Databases |-> <<DatabaseConfig("db1", TRUE), DatabaseConfig("db2", FALSE)>>,
       Tables |-> <<TableConfig("db1", vUsers, <<PathList>>)>>] }

WithSlash(p) == IF HasPrefix(p, <<"/">>) THEN p ELSE <<"/">> \o p

\* the paths a client asks for: every operation name (and one that is no
\* operation) under every configured prefix, a path under no configured
\* prefix, and a path of one segment
RequestPaths(cfg) ==
    {Mount \o WithSlash(cfg.Tables[i].PathPrefix) \o <<"/">> \o o :
        i \in DOMAIN cfg.Tables, o \in DOMAIN allHandlers \cup {vFoo}}
    \cup {Mount \o vInvalidPath, Mount \o <<"/">> \o PathList}

Methods == {"GET", "POST", "DELETE"}

InitRoute ==
    /\ pc = "new"
    /\ config \in Configs
    /\ dbs = {}
    /\ routes = <<>>
    /\ cmInit = FALSE
    /\ cmErr = ""
    /\ method = ""
    /\ ctxPath = <<>>
    /\ matched = <<>>
    /\ rows = InitialRows
    /\ query = <<>>
    /\ queryParams = NewQueryParams
    /\ ret = NoRet
    /\ body = NoBody
    /\ result = NoResult
    /\ idParam = <<>>
    /\ stmt = NoStatement
    /\ keyIn = <<>>
    /\ keyOut = NoKeyOp
    /\ cTransferMap = TransferMap
    /\ tdInput = <<>>
    /\ transfers = <<>>
    /\ response = NoResponse
    /\ tableInfo = <<>>
    /\ columnLock = 0
    /\ qbCache = <<>>
    /\ fetches = 0
    /\ calls = <<>>
    /\ opPath = <<>>
    /\ primaryKeys = <<nId>>
    /\ concurrent = <<>>
    /\ mu = FreeMutex
    /\ reqs = <<>>
    /\ upd = NoUpdate
    /\ closed = {}
    /\ generation = 0

\* NewCrudManager(config): the struct with empty dbs and routes, and nil
NewCrudManager ==
    /\ pc = "new"
    /\ pc' = "constructed"
    /\ dbs' = {}
    /\ routes' = <<>>
    /\ cmErr' = ""
    /\ UNCHANGED <<query, queryParams, ret, body, rows, result, idParam, stmt, keyIn, keyOut, cTransferMap, tdInput, transfers, response, config, cmInit, method, ctxPath, matched, tableInfo, columnLock, qbCache, fetches, calls, opPath, primaryKeys, concurrent, mu, reqs, upd, closed, generation>>

\* the handle gom.Open returned for the database named name when cm.dbs was
\* filled for the gen-th time
Handle(name, gen) == [Name |-> name, Gen |-> gen]

\* cm.init() on the configuration cfg with cm.dbs and cm.routes empty:
\* connects the databases in order, then creates and registers one Crud per
\* table in order; the first failure returns its error and keeps what was
\* done before it
CmInitResult(cfg, gen) ==
    LET D == cfg.Databases
        T == cfg.Tables
        badDb == {i \in DOMAIN D : ~D[i].Reachable}
        nDb == IF badDb = {} THEN Len(D)
               ELSE (CHOOSE i \in badDb : \A j \in badDb : i <= j) - 1
        opened == {D[i].Name : i \in 1..nDb}
        badTbl == {i \in DOMAIN T : T[i].Database \notin opened}
        nTbl == IF badDb # {} THEN 0
                ELSE IF badTbl = {} THEN Len(T)
                ELSE (CHOOSE i \in badTbl : \A j \in badTbl : i <= j) - 1
        last(p) == CHOOSE i \in 1..nTbl :
                     /\ T[i].PathPrefix = p
                     /\ \A j \in (i + 1)..nTbl : T[j].PathPrefix # p
    IN  [dbs |-> opened,
         routes |-> [p \in {T[i].PathPrefix : i \in 1..nTbl} |->
                        NewCrud(p, Handle(T[last(p)].Database, gen),
                                T[last(p)].HandlerFilters)],
         err |-> IF badDb # {} THEN "failed to connect to database"
                 ELSE IF badTbl # {} THEN "database not found for table"
                 ELSE ""]

\* cm.init() called on a manager just constructed
CmInit ==
    /\ pc = "constructed"
    /\ ~cmInit
    /\ cmErr = ""
    /\ LET r == CmInitResult(config, generation)
       IN  /\ dbs' = dbs \cup r.dbs
           /\ routes' = r.routes
           /\ cmErr' = r.err
           /\ cmInit' = (r.err = "")
    /\ UNCHANGED <<pc, query, queryParams, ret, body, rows, result, idParam, stmt, keyIn, keyOut, cTransferMap, tdInput, transfers, response, config, method, ctxPath, matched, tableInfo, columnLock, qbCache, fetches, calls, opPath, primaryKeys, concurrent, mu, reqs, upd, closed, generation>>

\* c.Handle(ctx) of a Crud: the operation is what follows the first
\* occurrence of c.Prefix in ctx.Path(); ran tells whether handler.Handle
\* (request parsing, then the data operation) was reached
CrudHandle(c, path, m) ==
    IF ~Contains(path, c.Prefix)
    THEN [ran |-> FALSE, response |-> StatusJSON(500, "path not configured")]
    ELSE LET operation ==
                 TrimPrefix(TrimPrefix(FromFirst(path, c.Prefix), c.Prefix), <<"/">>)
         IN  IF operation \notin DOMAIN c.HandlerMap
             THEN [ran |-> FALSE,
                   response |-> StatusJSON(404, "operation not configured")]
             ELSE IF m # c.HandlerMap[operation]
             THEN [ran |-> FALSE,
                   response |-> StatusJSON(405, "method not allowed")]
             ELSE [ran |-> TRUE, response |-> RenderOk(NilData)]

\* cm.handle(c), the handler of the catch-all route r.All("/*", cm.handle),
\* serving the request m p: the prefix is c.Params("*") up to its last slash
CmHandle(m, p) ==
    /\ pc = "constructed"
    /\ pc' = "done"
    /\ method' = m
    /\ ctxPath' = p
    /\ LET path == ParamsStar(p)
           lastSlashIndex == LastIndex(path, "/")
           prefix == SubSeq(path, 1, lastSlashIndex - 1)
       IN  IF lastSlashIndex = 0 \/ prefix \notin DOMAIN routes
           THEN /\ response' = StatusJSON(404, "path not configured")
                /\ matched' = <<>>
                /\ UNCHANGED <<ret, stmt>>
           ELSE LET out == CrudHandle(routes[prefix], p, m)
                IN  /\ matched' = routes[prefix].Prefix
                    /\ response' = out.response
                    /\ ret' = IF out.ran THEN QueryParamsRet(NewQueryParams) ELSE ret
                    /\ stmt' = IF out.ran
                               THEN Statement("handler", Scalar(NilVal), <<>>)
                               ELSE stmt
    /\ UNCHANGED <<query, queryParams, body, rows, result, idParam, keyIn, keyOut, cTransferMap, tdInput, transfers, config, dbs, routes, cmInit, cmErr, tableInfo, columnLock, qbCache, fetches, calls, opPath, primaryKeys, concurrent, mu, reqs, upd, closed, generation>>

ServeRequest == \E m \in Methods, p \in RequestPaths(config) : CmHandle(m, p)

NextRoute ==
    \/ NewCrudManager
    \/ CmInit
    \/ ServeRequest

SpecRoute == InitRoute /\ [][NextRoute]_vars

\* the operations enabled for the table configured at prefix p: its
\* handler-filter list intersected with the six operations, all six when the
\* list is empty
EnabledAt(p) ==
    LET t == CHOOSE t \in {config.Tables[i] : i \in DOMAIN config.Tables} :
                t.PathPrefix = p
    IN  IF t.HandlerFilters = <<>> THEN DOMAIN allHandlers
        ELSE {t.HandlerFilters[i] : i \in DOMAIN t.HandlerFilters}
                \cap DOMAIN allHandlers

\* the request served asks for operation o of the table configured at p
AsksFor(p, o) == ctxPath = Mount \o WithSlash(p) \o <<"/">> \o o

NothingRan == ret = NoRet /\ stmt = NoStatement

\* C17: a request that reaches a Crud for an operation that is not enabled is
\* answered 404 whatever its verb, one for an enabled operation with a verb
\* other than the handler's method is answered 405, and in both cases no
\* request parsing and no row-store operation happens.
C17_NotEnabled404WrongVerb405 ==
    (pc = "done" /\ matched # <<>>) =>
        \A o \in DOMAIN allHandlers \cup {vFoo} :
            AsksFor(matched, o) =>
                /\ o \notin EnabledAt(matched) =>
                        response.status = 404 /\ NothingRan
                /\ (o \in EnabledAt(matched) /\ method # allHandlers[o]) =>
                        response.status = 405 /\ NothingRan

\* what C17 says, for the Cruds whose prefix does not occur in the name of
\* the group
C17_WhenPrefixNotInMount ==
    (pc = "done" /\ matched # <<>> /\ ~Contains(Mount, matched)) =>
        \A o \in DOMAIN allHandlers \cup {vFoo} :
            AsksFor(matched, o) =>
                /\ o \notin EnabledAt(matched) =>
                        response.status = 404 /\ NothingRan
                /\ (o \in EnabledAt(matched) /\ method # allHandlers[o]) =>
                        response.status = 405 /\ NothingRan
                /\ (o \in EnabledAt(matched) /\ method = allHandlers[o]) =>
                        response.status = 200 /\ ~NothingRan

\* C18: once cm.init() has succeeded, a request for Pi/op under the group is
\* dispatched to the Crud created for the prefix Pi, and a request under none
\* of the configured prefixes is answered 404 by no Crud.
C18_DispatchedToItsCrud ==
    (pc = "done" /\ cmInit) =>
        LET P == {config.Tables[i].PathPrefix : i \in DOMAIN config.Tables}
            asked == {p \in P : \E o \in DOMAIN allHandlers \cup {vFoo} : AsksFor(p, o)}
        IN  IF asked # {}
            THEN matched \in asked
            ELSE matched = <<>> /\ response.status = 404

\* C19: once NewCrudManager has returned, either it returned an error (some
\* configured database cannot be connected) or the manager holds a handle for
\* every configured database and a routed Crud for every configured table.
C19_ConstructedIsInitialized ==
    pc # "new" =>
        IF \E i \in DOMAIN config.Databases : ~config.Databases[i].Reachable
        THEN cmErr # ""
        ELSE /\ dbs = {config.Databases[i].Name : i \in DOMAIN config.Databases}
             /\ DOMAIN routes = {config.Tables[i].PathPrefix : i \in DOMAIN config.Tables}

(***************************************************************************)
(* SpecCache: NumCallers goroutines call CacheTableInfo on one fresh       *)
(* QueryBuilder; the row store answers every GetTableInfo                  *)
(***************************************************************************)
Callers == 1..NumCallers

\* the tables a QueryBuilder is made for: without columns, with one, with two
TableInfos ==
    {<<>>, <<columnCache[nId]>>, <<columnCache[nId], columnCache[nName]>>}

Call(at, i, r) == [pc |-> at, i |-> i, ret |-> r]

InitCache ==
    /\ tableInfo \in TableInfos
    /\ columnLock = 0
    /\ qbCache = <<>>
    /\ fetches = 0
    /\ calls = [g \in Callers |-> Call("call", 0, <<>>)]
    /\ pc = "cache"
    /\ config = NoConfig
    /\ dbs = {}
    /\ routes = <<>>
    /\ cmInit = FALSE
    /\ cmErr = ""
    /\ method = ""
    /\ ctxPath = <<>>
    /\ matched = <<>>
    /\ rows = InitialRows
    /\ query = <<>>
    /\ queryParams = NewQueryParams
    /\ ret = NoRet
    /\ body = NoBody
    /\ result = NoResult
    /\ idParam = <<>>
    /\ stmt = NoStatement
    /\ keyIn = <<>>
    /\ keyOut = NoKeyOp
    /\ cTransferMap = TransferMap
    /\ tdInput = <<>>
    /\ transfers = <<>>
    /\ response = NoResponse
    /\ opPath = <<>>
    /\ primaryKeys = <<nId>>
    /\ concurrent = <<>>
    /\ mu = FreeMutex
    /\ reqs = <<>>
    /\ upd = NoUpdate
    /\ closed = {}
    /\ generation = 0

CacheUnchanged ==
    UNCHANGED <<pc, query, queryParams, ret, body, rows, result, idParam, stmt, keyIn, keyOut, cTransferMap, tdInput, transfers, response, config, dbs, routes, cmInit, cmErr, method, ctxPath, matched, tableInfo>>

\* a Lock() that does not exclude: the mutant of CacheLock
CacheLockNoExclusion(g) ==
    /\ calls[g].pc = "call"
    /\ columnLock' = g
    /\ calls' = [calls EXCEPT ![g].pc = "check"]
    /\ UNCHANGED <<qbCache, fetches, opPath, primaryKeys, concurrent, mu, reqs, upd, closed, generation>>
    /\ CacheUnchanged

\* qb.columnLock.Lock(): blocks while another caller holds the lock
CacheLock(g) ==
    /\ calls[g].pc = "call"
    /\ columnLock = 0
    /\ columnLock' = g
    /\ calls' = [calls EXCEPT ![g].pc = "check"]
    /\ UNCHANGED <<qbCache, fetches, opPath, primaryKeys, concurrent, mu, reqs, upd, closed, generation>>
    /\ CacheUnchanged

\* if len(qb.columnCache) > 0 { return qb.columnCache, nil }
CacheCheck(g) ==
    /\ calls[g].pc = "check"
    /\ calls' = IF Cardinality(DOMAIN qbCache) > 0
                THEN [calls EXCEPT ![g] = Call("unlock", 0, qbCache)]
                ELSE [calls EXCEPT ![g].pc = "fetch"]
    /\ UNCHANGED <<columnLock, qbCache, fetches, opPath, primaryKeys, concurrent, mu, reqs, upd, closed, generation>>
    /\ CacheUnchanged

\* tableInfo, err := qb.db.GetTableInfo(qb.table), with err nil
CacheFetch(g) ==
    /\ calls[g].pc = "fetch"
    /\ fetches' = fetches + 1
    /\ calls' = [calls EXCEPT ![g] = Call("fill", 1, <<>>)]
    /\ UNCHANGED <<columnLock, qbCache, opPath, primaryKeys, concurrent, mu, reqs, upd, closed, generation>>
    /\ CacheUnchanged

\* one turn of for _, col := range tableInfo.Columns, and after the last
\* one return qb.columnCache, nil
CacheFill(g) ==
    /\ calls[g].pc = "fill"
    /\ LET i == calls[g].i
       IN  IF i <= Len(tableInfo)
           THEN /\ qbCache' = MapPut(qbCache, tableInfo[i].Name, tableInfo[i])
                /\ calls' = [calls EXCEPT ![g].i = i + 1]
           ELSE /\ qbCache' = qbCache
                /\ calls' = [calls EXCEPT ![g] = Call("unlock", 0, qbCache)]
    /\ UNCHANGED <<columnLock, fetches, opPath, primaryKeys, concurrent, mu, reqs, upd, closed, generation>>
    /\ CacheUnchanged

\* the deferred qb.columnLock.Unlock(), and the return to the caller
CacheUnlock(g) ==
    /\ calls[g].pc = "unlock"
    /\ columnLock' = 0
    /\ calls' = [calls EXCEPT ![g].pc = "done"]
    /\ UNCHANGED <<qbCache, fetches, opPath, primaryKeys, concurrent, mu, reqs, upd, closed, generation>>
    /\ CacheUnchanged

CacheTableInfo(g) ==
    \/ CacheLock(g)
    \/ CacheCheck(g)
    \/ CacheFetch(g)
    \/ CacheFill(g)
    \/ CacheUnlock(g)

NextCache == \E g \in Callers : CacheTableInfo(g)

SpecCache == InitCache /\ [][NextCache]_vars

\* the complete catalog of the table: every column under its name
Catalog == [n \in {tableInfo[i].Name : i \in DOMAIN tableInfo} |->
                tableInfo[CHOOSE i \in DOMAIN tableInfo : tableInfo[i].Name = n]]

TypedNames ==
    {<<<<"c","s","t","r","i","n","g">>, "string">>,
     <<<<"c","i","n","t","8">>, "int8">>,
     <<<<"c","i","n","t","1","6">>, "int16">>,
     <<<<"c","i","n","t","3","2">>, "int32">>,
     <<<<"c","i","n","t","6","4">>, "int64">>,
     <<<<"c","u","i","n","t","8">>, "uint8">>,
     <<<<"c","u","i","n","t","1","6">>, "uint16">>,
     <<<<"c","u","i","n","t","3","2">>, "uint32">>,
     <<<<"c","u","i","n","t","6","4">>, "uint64">>,
     <<<<"c","b","o","o","l">>, "bool">>,
     <<<<"c","f","l","o","a","t","6","4">>, "float64">>,
     <<<<"c","t","i","m","e","T","i","m","e">>, "time.Time">>,
     <<<<"c","b","y","t","e">>, "[]byte">>}

TypedColumns ==
    [n \in {p[1] : p \in TypedNames} |->
        ColumnInfo(n, (CHOOSE p \in TypedNames : p[1] = n)[2], FALSE, FALSE)]

CondValues ==
    {<<"0">>,
     <<"5">>,
     <<"-","5">>,
     <<"1","2","7">>,
     <<"1","2","8">>,
     <<"-","1","2","8">>,
     <<"-","1","2","9">>,
     <<"2","5","5">>,
     <<"2","5","6">>,
     <<"3","2","7","6","7">>,
     <<"3","2","7","6","8">>,
     <<"-","3","2","7","6","8">>,
     <<"6","5","5","3","5">>,
     <<"6","5","5","3","6">>,
     <<"2","1","4","7","4","8","3","6","4","7">>,
     <<"a","b","c">>,
     <<>>,
     <<"t","r","u","e">>,
     <<"1",".","5">>,
     <<"1","0",",","2","0">>,
     <<"1","0",",","2","0",",","3","0">>,
     <<"5",",","x">>,
     <<"2","0","2","4","-","0","1","-","1","5">>}

CondSuffixes == {sEq, sIn, sNotIn, sBetween, sNotBetween, sIsNull, sIsNotNull}

\* the model's integers end at 2^31 - 1: a wider number is given only to the
\* columns whose coercion rejects it or keeps it as text
WideValues ==
    {<<"2","1","4","7","4","8","3","6","4","8">>,
     <<"1","8","4","4","6","7","4","4","0","7","3","7","0","9","5","5","1","6","1","6">>}

CondArgs ==
    {<<K(n, x), v>> : n \in DOMAIN TypedColumns, x \in CondSuffixes, v \in CondValues}
    \cup {<<K(n, x), v>> :
            n \in {m \in DOMAIN TypedColumns :
                    TypedColumns[m].DataType \notin {"uint32", "uint64", "float64"}},
            x \in CondSuffixes, v \in WideValues}

InitCond ==
    /\ pc = "parse"
    /\ query = <<>>
    /\ queryParams = NewQueryParams
    /\ ret = NoRet
    /\ body = NoBody
    /\ rows = {}
    /\ result = NoResult
    /\ idParam = <<>>
    /\ stmt = NoStatement
    /\ keyIn = <<>>
    /\ keyOut = NoKeyOp
    /\ cTransferMap = TransferMap
    /\ tdInput = <<>>
    /\ transfers = <<>>
    /\ response = NoResponse
    /\ config = NoConfig
    /\ dbs = {}
    /\ routes = <<>>
    /\ cmInit = FALSE
    /\ cmErr = ""
    /\ method = ""
    /\ ctxPath = <<>>
    /\ matched = <<>>
    /\ tableInfo = <<>>
    /\ columnLock = 0
    /\ qbCache = <<>>
    /\ fetches = 0
    /\ calls = <<>>
    /\ opPath = <<>>
    /\ primaryKeys = <<nId>>
    /\ concurrent = <<>>
    /\ mu = FreeMutex
    /\ reqs = <<>>
    /\ upd = NoUpdate
    /\ closed = {}
    /\ generation = 0

\* VisitAll delivers the request's one arg to the closure
VisitAllCond ==
    /\ pc = "parse"
    /\ query = <<>>
    /\ \E a \in CondArgs :
        /\ query' = <<a>>
        /\ queryParams' = VisitAllCallback(queryParams, cTransferMap, TypedColumns, a[1], a[2])
    /\ UNCHANGED <<pc, ret, body, rows, result, idParam, stmt, keyIn, keyOut, cTransferMap, tdInput, transfers, response, config, dbs, routes, cmInit, cmErr, method, ctxPath, matched, tableInfo, columnLock, qbCache, fetches, calls, opPath, primaryKeys, concurrent, mu, reqs, upd, closed, generation>>

NextCond == VisitAllCond \/ RequestToQueryParamsTransfer

SpecCond == InitCond /\ [][NextCond]_vars

IntegerTypes == {"int8", "int16", "int32", "int64", "uint8", "uint16", "uint32", "uint64"}

\* the number a decimal text (not one of WideValues) denotes
TextNumber(v) ==
    IF v[1] = "-" THEN 0 - DigitsValue(Tail(v))
    ELSE IF v[1] = "+" THEN DigitsValue(Tail(v))
    ELSE DigitsValue(v)

\* the decimal text v lies within the range of the integer type t
InRangeOf(t, v) ==
    /\ IsIntegerText(v)
    /\ IF v \in WideValues
       THEN t = "int64" /\ Len(v) = 10
       ELSE LET n == TextNumber(v) IN
            CASE t = "int8"   -> -128 <= n /\ n <= 127
              [] t = "int16"  -> -32768 <= n /\ n <= 32767
              [] t = "uint8"  -> 0 <= n /\ n <= 255
              [] t = "uint16" -> 0 <= n /\ n <= 65535
              [] t \in {"uint32", "uint64"} -> 0 <= n
              [] OTHER -> TRUE

\* the one arg of the request: its column's declared type, operator and value
ArgType == TypedColumns[KeyMeaning(query[1][1]).field].DataType
ArgOp == KeyMeaning(query[1][1]).op
ArgValue == query[1][2]

\* C21: on a column of a declared integer type, a decimal string within the
\* range of the type's width is coerced to that integer, and a string that is
\* no number or lies outside the range fails, so the condition is dropped.
C21_IntegerCoercionAtWidth ==
    (pc = "parsed" /\ Len(query) = 1 /\ ArgType \in IntegerTypes
        /\ ArgOp = "OpEq" /\ NumElements(ArgValue) = 1) =>
        LET conds == ret.params.ConditionParams IN
        IF InRangeOf(ArgType, ArgValue)
        THEN /\ Len(conds) = 1
             /\ ~conds[1].Values.list
             /\ conds[1].Values.vals[1].k \in {"int64", ArgType}
             /\ ArgValue \notin WideValues =>
                    conds[1].Values.vals[1].n = TextNumber(ArgValue)
        ELSE conds = <<>>

\* what C21 says, for the declared integer types other than int64
C21_ExceptInt64 ==
    (pc = "parsed" /\ Len(query) = 1) =>
        (ArgType # "int64" => C21_IntegerCoercionAtWidth)

\* C22: every condition of the parsed request whose operator is between or
\* notBetween carries exactly two values, and every condition whose operator
\* is in or notIn carries at least one.
C22_BetweenTwoInAtLeastOne ==
    pc = "parsed" =>
        \A i \in 1..Len(ret.params.ConditionParams) :
            LET c == ret.params.ConditionParams[i] IN
            /\ c.Op \in {"OpBetween", "OpNotBetween"} =>
                    c.Values.list /\ Len(c.Values.vals) = 2
            /\ c.Op \in {"OpIn", "OpNotIn"} => Len(c.Values.vals) >= 1

\* the part of C22 about in and notIn
C22_InAtLeastOne ==
    pc = "parsed" =>
        \A i \in 1..Len(ret.params.ConditionParams) :
            ret.params.ConditionParams[i].Op \in {"OpIn", "OpNotIn"} =>
                Len(ret.params.ConditionParams[i].Values.vals) >= 1

\* C25: a key field_isNull=true or field_isNotNull=true on a catalog column
\* yields the is-null (is-not-null) condition on that field, whatever the
\* column's declared type.
C25_NullTestOnAnyType ==
    (pc = "parsed" /\ Len(query) = 1 /\ ArgOp \in {"OpIsNull", "OpIsNotNull"}
        /\ ArgValue = vTrue) =>
        /\ Len(ret.params.ConditionParams) = 1
        /\ ret.params.ConditionParams[1].Key = KeyMeaning(query[1][1]).field
        /\ ret.params.ConditionParams[1].Op = ArgOp

\* what C25 says, for the declared types whose coercion accepts the text true
C25_WhereTrueCoerces ==
    (pc = "parsed" /\ Len(query) = 1) =>
        (ArgType \in {"string", "bool", "[]byte", "int64"} => C25_NullTestOnAnyType)

(***************************************************************************)
(* SpecList: one request to PathList or PathPage                           *)
(***************************************************************************)
\* the data of a response that holds rows: the []map of list, the PageInfo
\* of page
ListData(list) == [kind |-> "list", obj |-> list]
PageData(page, pageSize, total, list) ==
    [kind |-> "page",
     obj |-> [Page |-> page, PageSize |-> pageSize, Total |-> total, List |-> list]]

\* the sequences that hold every element of the set S once: the orders in
\* which the store may return rows the request puts in no order
Orders(S) ==
    {o \in [1..Cardinality(S) -> S] : \A i, j \in DOMAIN o : o[i] = o[j] => i = j}

\* listOperation: chain.List() under the conditions; result.Data is returned
\* as the store gave it
ListOperation ==
    /\ pc = "parsed"
    /\ opPath = PathList
    /\ ret.kind = "QueryParams"
    /\ pc' = "operated"
    /\ stmt' = Statement("select", Scalar(NilVal), <<>>)
    /\ \E list \in Orders(WhereAll(rows, ret.params.ConditionParams)) :
            result' = [NoResult EXCEPT !.kind = "list", !.row = ListData(list)]
    /\ UNCHANGED <<query, queryParams, ret, body, rows, idParam, keyIn, keyOut, cTransferMap, tdInput, transfers, response, config, dbs, routes, cmInit, cmErr, method, ctxPath, matched, tableInfo, columnLock, qbCache, fetches, calls, opPath, primaryKeys, concurrent, mu, reqs, upd, closed, generation>>

\* pageOperation: page 0 stands for 1 and pageSize 0 for 10;
\* chain.Page(page, pageSize).PageInfo() is returned as the store gave it
PageOperation ==
    /\ pc = "parsed"
    /\ opPath = PathPage
    /\ ret.kind = "QueryParams"
    /\ pc' = "operated"
    /\ stmt' = Statement("select", Scalar(NilVal), <<>>)
    /\ LET found    == WhereAll(rows, ret.params.ConditionParams)
           page     == IF ret.params.Page = 0 THEN 1 ELSE ret.params.Page
           pageSize == IF ret.params.PageSize = 0 THEN 10 ELSE ret.params.PageSize
       IN  \E all \in Orders(found) :
             result' = [NoResult EXCEPT !.kind = "page",
                          !.row = PageData(page, pageSize, Cardinality(found),
                                    SubSeq(all, (page - 1) * pageSize + 1,
                                           IF page * pageSize < Len(all)
                                           THEN page * pageSize ELSE Len(all)))]
    /\ UNCHANGED <<query, queryParams, ret, body, rows, idParam, keyIn, keyOut, cTransferMap, tdInput, transfers, response, config, dbs, routes, cmInit, cmErr, method, ctxPath, matched, tableInfo, columnLock, qbCache, fetches, calls, opPath, primaryKeys, concurrent, mu, reqs, upd, closed, generation>>

\* the rest of RequestHandler.Handle for PathList and PathPage:
\* doNothingTransfer, then RenderResponseFunc
ListRenderResponse ==
    /\ pc = "operated"
    /\ pc' = "done"
    /\ response' = IF result.kind = "error" THEN RenderErrs(result.err)
                   ELSE RenderOk(result.row)
    /\ UNCHANGED <<query, queryParams, ret, body, rows, result, idParam, stmt, keyIn, keyOut, cTransferMap, tdInput, transfers, config, dbs, routes, cmInit, cmErr, method, ctxPath, matched, tableInfo, columnLock, qbCache, fetches, calls, opPath, primaryKeys, concurrent, mu, reqs, upd, closed, generation>>

ListArgs ==
    {<<K(nAge, sEq), v20>>, <<K(nUserAge, sGt), v20>>, <<K(nAge, sEq), v5>>,
     <<K(nUserName, sEq), vAlName>>, <<kPage, v2>>, <<kPageSize, v2>>, <<kPageSize, v1>>}

InitList ==
    /\ pc = "parse"
    /\ opPath \in {PathList, PathPage}
    /\ rows = InitialRows
    /\ query = <<>>
    /\ queryParams = NewQueryParams
    /\ ret = NoRet
    /\ body = NoBody
    /\ result = NoResult
    /\ idParam = <<>>
    /\ stmt = NoStatement
    /\ keyIn = <<>>
    /\ keyOut = NoKeyOp
    /\ cTransferMap = TransferMap
    /\ tdInput = <<>>
    /\ transfers = <<>>
    /\ response = NoResponse
    /\ config = NoConfig
    /\ dbs = {}
    /\ routes = <<>>
    /\ cmInit = FALSE
    /\ cmErr = ""
    /\ method = ""
    /\ ctxPath = <<>>
    /\ matched = <<>>
    /\ tableInfo = <<>>
    /\ columnLock = 0
    /\ qbCache = <<>>
    /\ fetches = 0
    /\ calls = <<>>
    /\ primaryKeys = <<nId>>
    /\ concurrent = <<>>
    /\ mu = FreeMutex
    /\ reqs = <<>>
    /\ upd = NoUpdate
    /\ closed = {}
    /\ generation = 0

VisitAllList == VisitAllFrom(ListArgs)

NextList ==
    \/ VisitAllList
    \/ RequestToQueryParamsTransfer
    \/ ListOperation
    \/ PageOperation
    \/ ListRenderResponse

SpecList == InitList /\ [][NextList]_vars

\* the rows a response holds
ResponseRows ==
    CASE response.data.kind = "list" -> {response.data.obj[i] : i \in DOMAIN response.data.obj}
      [] response.data.kind = "page" ->
            {response.data.obj.List[i] : i \in DOMAIN response.data.obj.List}
      [] response.data.kind = "object" ->
            IF response.data.obj = <<>> THEN {} ELSE {response.data.obj}
      [] OTHER -> {}

\* the row holds every mapped column under its API name and not under its
\* storage name, with the value some stored row of the same id has there
KeyedByApiNames(row) ==
    \A api \in DOMAIN cTransferMap :
        /\ cTransferMap[api] \notin DOMAIN row
        /\ api \in DOMAIN row
        /\ \E r \in rows : r[nId] = row[nId] /\ r[cTransferMap[api]] = row[api]

\* C23: every row a get, list or page returns is keyed by API field names:
\* for each field-map entry api -> storage the stored column's value is in
\* the response under api and not under storage.
C23_RowsKeyedByApiNames ==
    (pc = "done" /\ response.code = 200) =>
        \A row \in ResponseRows : KeyedByApiNames(row)

(***************************************************************************)
(* SpecKeyless: one request to PathSave or PathDelete, on a table that     *)
(* declares a primary key or none                                          *)
(***************************************************************************)
InitKeyless ==
    /\ pc = "start"
    /\ opPath \in {PathSave, PathDelete}
    /\ primaryKeys \in {<<>>, <<nId>>}
    /\ body \in IF opPath = PathSave THEN SaveBodies ELSE DeleteBodies
    /\ idParam \in IF opPath = PathSave THEN IdParams ELSE {<<>>}
    /\ rows = InitialRows
    /\ query = <<>>
    /\ queryParams = NewQueryParams
    /\ ret = NoRet
    /\ result = NoResult
    /\ stmt = NoStatement
    /\ keyIn = <<>>
    /\ keyOut = NoKeyOp
    /\ cTransferMap = TransferMap
    /\ tdInput = <<>>
    /\ transfers = <<>>
    /\ response = NoResponse
    /\ config = NoConfig
    /\ dbs = {}
    /\ routes = <<>>
    /\ cmInit = FALSE
    /\ cmErr = ""
    /\ method = ""
    /\ ctxPath = <<>>
    /\ matched = <<>>
    /\ tableInfo = <<>>
    /\ columnLock = 0
    /\ qbCache = <<>>
    /\ fetches = 0
    /\ calls = <<>>
    /\ concurrent = <<>>
    /\ mu = FreeMutex
    /\ reqs = <<>>
    /\ upd = NoUpdate
    /\ closed = {}
    /\ generation = 0

SaveHandler == opPath = PathSave /\ (RequestToMap \/ SaveOperation \/ SaveRetrieve)

DeleteHandler ==
    /\ opPath = PathDelete
    /\ \/ DeleteParseRequest
       \/ VisitAllDelete
       \/ RequestToQueryParamsTransfer
       \/ DeleteOperation

NextKeyless == SaveHandler \/ DeleteHandler

SpecKeyless == InitKeyless /\ [][NextKeyless]_vars

\* the DataOperationFunc of the request has been invoked and has ended
OperationEnded ==
    /\ pc \in {"done", "panic"}
    /\ ~ret.err
    /\ ret.kind \in {"map", "DeleteRequest", "QueryParams"}

\* C24: save and delete invoked on a table that declares no primary key end
\* with the error "table has no primary key", write nothing to the row store
\* and do not crash.
C24_NoPrimaryKeyIsAnError ==
    (OperationEnded /\ Len(primaryKeys) = 0) =>
        /\ pc = "done"
        /\ result.kind = "error"
        /\ result.err = "table has no primary key"
        /\ rows = InitialRows
        /\ stmt = NoStatement

\* what C24 says, for save
C24_ForSave ==
    opPath = PathSave => C24_NoPrimaryKeyIsAnError

\* C27: a save whose primary key is the zero of a numeric type, the int64 id
\* requestToMap takes from the path parameter included, is an insert:
\* isPrimaryKeyValid is false for it.
C27_ZeroKeyIsInsert ==
    (stmt.op \in {"insert", "update"} /\ Len(primaryKeys) > 0
        /\ primaryKeys[1] \in DOMAIN ret.data
        /\ ~ret.data[primaryKeys[1]].list
        /\ IsNumber(ret.data[primaryKeys[1]].vals[1])
        /\ ret.data[primaryKeys[1]].vals[1].n = 0) =>
        /\ ~isPrimaryKeyValid(ret.data[primaryKeys[1]])
        /\ stmt.op = "insert"

\* what C27 says, for the float64 zero of a JSON body
C27_ForFloatZero ==
    (primaryKeys[1] \in DOMAIN ret.data /\ ~ret.data[primaryKeys[1]].list
        /\ ret.data[primaryKeys[1]].vals[1].k = "float64") => C27_ZeroKeyIsInsert

(***************************************************************************)
(* SpecRace: one request to PathSave, and one delete by primary key that   *)
(* another request applies at any moment                                   *)
(***************************************************************************)
InitRace ==
    /\ pc = "start"
    /\ concurrent = <<>>
    /\ body \in SaveBodies
    /\ idParam \in IdParams
    /\ rows = InitialRows
    /\ primaryKeys = <<nId>>
    /\ opPath = PathSave
    /\ query = <<>>
    /\ queryParams = NewQueryParams
    /\ ret = NoRet
    /\ result = NoResult
    /\ stmt = NoStatement
    /\ keyIn = <<>>
    /\ keyOut = NoKeyOp
    /\ cTransferMap = TransferMap
    /\ tdInput = <<>>
    /\ transfers = <<>>
    /\ response = NoResponse
    /\ config = NoConfig
    /\ dbs = {}
    /\ routes = <<>>
    /\ cmInit = FALSE
    /\ cmErr = ""
    /\ method = ""
    /\ ctxPath = <<>>
    /\ matched = <<>>
    /\ tableInfo = <<>>
    /\ columnLock = 0
    /\ qbCache = <<>>
    /\ fetches = 0
    /\ calls = <<>>
    /\ mu = FreeMutex
    /\ reqs = <<>>
    /\ upd = NoUpdate
    /\ closed = {}
    /\ generation = 0

\* the deleteOperation of another request, in batch mode with the one id
ConcurrentDelete ==
    /\ concurrent = <<>>
    /\ \E id \in {r[nId].n : r \in InitialRows} :
        /\ rows' = rows \ DeleteIn(rows, PrimaryKeys[1], <<FloatVal(id, 0)>>)
        /\ concurrent' = <<[op |-> "delete", id |-> id, at |-> pc]>>
    /\ UNCHANGED <<pc, query, queryParams, ret, body, result, idParam, stmt, keyIn, keyOut, cTransferMap, tdInput, transfers, response, config, dbs, routes, cmInit, cmErr, method, ctxPath, matched, tableInfo, columnLock, qbCache, fetches, calls, opPath, primaryKeys, mu, reqs, upd, closed, generation>>

NextRace ==
    \/ RequestToMap
    \/ SaveOperation
    \/ SaveRetrieve
    \/ ConcurrentDelete

SpecRace == InitRace /\ [][NextRace]_vars

\* the rows the update's WHERE selected when the request arrived
UpdatedBefore == SelectWhere(InitialRows, nId, stmt.filter)

\* the rows as the update's write leaves them
UpdatedAfter ==
    {[c \in DOMAIN r |-> IF c \in DOMAIN stmt.fields
                         THEN StoreValue(c, stmt.fields[c]).val ELSE r[c]] :
        r \in UpdatedBefore}

\* C26: the update path of save is not atomic. When a concurrent delete of
\* the same primary key runs between the write and the re-read, save reports
\* the failure to retrieve although its write was applied; with no concurrent
\* writer a save-update of an existing key returns the row as the write left
\* it.
C26_UpdateNotAtomic ==
    (pc = "done" /\ stmt.op = "update" /\ result.err # "update"
        /\ UpdatedBefore # {}) =>
        /\ (/\ concurrent # <<>>
            /\ concurrent[1].at = "retrieve"
            /\ \E r \in UpdatedBefore : r[nId].n = concurrent[1].id)
                => result.kind = "error"
        /\ (concurrent = <<>> \/ concurrent[1].at = "done")
                => /\ result.kind = "row"
                   /\ \E r \in UpdatedAfter, order \in RangeOrders(cTransferMap) :
                        result.row = transferData(cTransferMap, r, TRUE, order)

C26_Witness ==
    /\ pc = "done"
    /\ stmt.op = "update"
    /\ UpdatedBefore # {}
    /\ concurrent # <<>>
    /\ concurrent[1].at = "retrieve"
    /\ result.kind = "error"
    /\ \E r \in UpdatedBefore : r[nId].n = concurrent[1].id

(***************************************************************************)
(* The manager under concurrent requests and UpdateConfig                  *)
(***************************************************************************)
\* the number of requests in cm.handle at the same time
NumRequests == 2
\* the number of calls of UpdateConfig
MaxUpdates == 2

Requests == 1..NumRequests

NoRequest == [at |-> "idle", method |-> "", path |-> <<>>, rlocked |-> FALSE,
              crud |-> <<>>, ran |-> FALSE, onClosed |-> FALSE,
              response |-> NoResponse]

\* the configurations UpdateConfig is called with: those a manager is built
\* from, and one whose table names a database that is not configured
NewConfigs ==
    Configs \cup
    { [Databases |-> <<DatabaseConfig("db1", TRUE)>>,
       Tables |-> <<TableConfig("db1", vUsers, <<PathList>>),
                    TableConfig("db3", vBareProducts, <<PathList>>)>>] }

\* the paths a client asks for while the configuration changes: the list
\* operation under every prefix of the current configuration, and a path of
\* one segment
ListPaths(cfg) ==
    {Mount \o WithSlash(cfg.Tables[i].PathPrefix) \o <<"/">> \o PathList :
        i \in DOMAIN cfg.Tables}
    \cup {Mount \o <<"/">> \o PathList}

InitConfig ==
    /\ pc = "constructed"
    /\ concurrent = <<>>
    /\ body = NoBody
    /\ idParam = <<>>
    /\ rows = InitialRows
    /\ primaryKeys = <<nId>>
    /\ opPath = <<>>
    /\ query = <<>>
    /\ queryParams = NewQueryParams
    /\ ret = NoRet
    /\ result = NoResult
    /\ stmt = NoStatement
    /\ keyIn = <<>>
    /\ keyOut = NoKeyOp
    /\ cTransferMap = TransferMap
    /\ tdInput = <<>>
    /\ transfers = <<>>
    /\ response = NoResponse
    /\ config \in Configs
    /\ dbs = {}
    /\ routes = <<>>
    /\ cmInit = FALSE
    /\ cmErr = ""
    /\ method = ""
    /\ ctxPath = <<>>
    /\ matched = <<>>
    /\ tableInfo = <<>>
    /\ columnLock = 0
    /\ qbCache = <<>>
    /\ fetches = 0
    /\ calls = <<>>
    /\ mu = FreeMutex
    /\ reqs = [r \in Requests |-> NoRequest]
    /\ upd = NoUpdate
    /\ closed = {}
    /\ generation = 0

\* cm.handle: cm.mu.RLock(); a reader waits while a writer holds the mutex
\* or waits for it
HandleRLock(r, m, p) ==
    /\ reqs[r].at = "idle"
    /\ ~mu.writer /\ ~mu.waiting
    /\ mu' = [mu EXCEPT !.readers = @ + 1]
    /\ reqs' = [reqs EXCEPT ![r] = [NoRequest EXCEPT !.at = "locked",
                                       !.method = m, !.path = p,
                                       !.rlocked = TRUE]]
    /\ UNCHANGED <<pc, query, queryParams, ret, body, rows, result, idParam, stmt, keyIn, keyOut, cTransferMap, tdInput, transfers, response, config, dbs, routes, cmInit, cmErr, method, ctxPath, matched, tableInfo, columnLock, qbCache, fetches, calls, opPath, primaryKeys, concurrent, upd, closed, generation>>

\* cm.handle from strings.LastIndex to the lookup: a path without "/"
\* returns 404 at once; otherwise cm.routes[prefix] is read, cm.mu.RUnlock()
\* is called, and a prefix not registered returns 404
HandleLookup(r) ==
    /\ reqs[r].at = "locked"
    /\ LET path == ParamsStar(reqs[r].path)
           lastSlashIndex == LastIndex(path, "/")
           prefix == SubSeq(path, 1, lastSlashIndex - 1)
       IN  IF lastSlashIndex = 0
           THEN /\ reqs' = [reqs EXCEPT ![r].at = "returned",
                                ![r].response = StatusJSON(404, "path not configured")]
                /\ UNCHANGED mu
           ELSE /\ mu' = [mu EXCEPT !.readers = @ - 1]
                /\ IF prefix \notin DOMAIN routes
                   THEN reqs' = [reqs EXCEPT ![r].at = "returned",
                                    ![r].rlocked = FALSE,
                                    ![r].response = StatusJSON(404, "path not configured")]
                   ELSE reqs' = [reqs EXCEPT ![r].at = "matched",
                                    ![r].rlocked = FALSE,
                                    ![r].crud = routes[prefix]]
    /\ UNCHANGED <<pc, query, queryParams, ret, body, rows, result, idParam, stmt, keyIn, keyOut, cTransferMap, tdInput, transfers, response, config, dbs, routes, cmInit, cmErr, method, ctxPath, matched, tableInfo, columnLock, qbCache, fetches, calls, opPath, primaryKeys, concurrent, upd, closed, generation>>

\* cm.handle: return matchedCrud.Handle(c), after the read lock was released;
\* a handler that runs does its row-store operation on matchedCrud.Db
HandleDispatch(r) ==
    /\ reqs[r].at = "matched"
    /\ LET out == CrudHandle(reqs[r].crud, reqs[r].path, reqs[r].method)
       IN  reqs' = [reqs EXCEPT ![r].at = "returned",
                        ![r].response = out.response,
                        ![r].ran = out.ran,
                        ![r].onClosed = out.ran /\ reqs[r].crud.Db \in closed]
    /\ UNCHANGED <<pc, query, queryParams, ret, body, rows, result, idParam, stmt, keyIn, keyOut, cTransferMap, tdInput, transfers, response, config, dbs, routes, cmInit, cmErr, method, ctxPath, matched, tableInfo, columnLock, qbCache, fetches, calls, opPath, primaryKeys, concurrent, mu, upd, closed, generation>>

\* UpdateConfig(newConf) is called: cm.mu.Lock() announces the writer
UpdateConfigCall(newConf) ==
    /\ upd.at \in {"idle", "returned"}
    /\ generation < MaxUpdates
    /\ upd' = [NoUpdate EXCEPT !.at = "waiting", !.conf = newConf]
    /\ mu' = [mu EXCEPT !.waiting = TRUE]
    /\ UNCHANGED <<pc, query, queryParams, ret, body, rows, result, idParam, stmt, keyIn, keyOut, cTransferMap, tdInput, transfers, response, config, dbs, routes, cmInit, cmErr, method, ctxPath, matched, tableInfo, columnLock, qbCache, fetches, calls, opPath, primaryKeys, concurrent, reqs, closed, generation>>

\* cm.mu.Lock() returns once no reader and no writer holds the mutex
UpdateConfigLock ==
    /\ upd.at = "waiting"
    /\ mu.readers = 0 /\ ~mu.writer
    /\ mu' = [mu EXCEPT !.writer = TRUE, !.waiting = FALSE]
    /\ upd' = [upd EXCEPT !.at = "locked", !.prevRoutes = routes,
                          !.prevDbs = {Handle(n, generation) : n \in dbs}]
    /\ UNCHANGED <<pc, query, queryParams, ret, body, rows, result, idParam, stmt, keyIn, keyOut, cTransferMap, tdInput, transfers, response, config, dbs, routes, cmInit, cmErr, method, ctxPath, matched, tableInfo, columnLock, qbCache, fetches, calls, opPath, primaryKeys, concurrent, reqs, closed, generation>>

\* UpdateConfig under the lock: closes every handle of cm.dbs, stores the new
\* configuration, empties cm.dbs and cm.routes, returns cm.init(); the
\* deferred cm.mu.Unlock() runs on return
UpdateConfig ==
    /\ upd.at = "locked"
    /\ LET r == CmInitResult(upd.conf, generation + 1)
       IN  /\ closed' = closed \cup {Handle(n, generation) : n \in dbs}
           /\ config' = upd.conf
           /\ generation' = generation + 1
           /\ dbs' = r.dbs
           /\ routes' = r.routes
           /\ cmErr' = r.err
           /\ cmInit' = (r.err = "")
           /\ upd' = [upd EXCEPT !.at = "returned", !.err = r.err]
    /\ mu' = [mu EXCEPT !.writer = FALSE]
    /\ UNCHANGED <<pc, query, queryParams, ret, body, rows, result, idParam, stmt, keyIn, keyOut, cTransferMap, tdInput, transfers, response, method, ctxPath, matched, tableInfo, columnLock, qbCache, fetches, calls, opPath, primaryKeys, concurrent, reqs>>

ServeConcurrently ==
    \E r \in Requests :
        \/ \E m \in {"GET", "POST"}, p \in ListPaths(config) : HandleRLock(r, m, p)
        \/ HandleLookup(r)
        \/ HandleDispatch(r)

NextConfig ==
    \/ ServeConcurrently
    \/ \E newConf \in NewConfigs : UpdateConfigCall(newConf)
    \/ UpdateConfigLock
    \/ UpdateConfig

SpecConfig == InitConfig /\ [][NextConfig]_vars

\* C28: every execution of cm.handle that has returned has released the read
\* lock it took, whatever the path asked (a path without "/" included), so
\* that once no request is inside cm.handle no reader holds cm.mu and a
\* waiting UpdateConfig can take the write lock.
C28_HandleReleasesReadLock ==
    /\ \A r \in Requests : reqs[r].at = "returned" => ~reqs[r].rlocked
    /\ (\A r \in Requests : reqs[r].at \in {"idle", "returned"}) => mu.readers = 0

\* what C28 says, for the requests whose path below the group has a "/"
C28_WhenPathHasSlash ==
    \A r \in Requests :
        (reqs[r].at = "returned" /\ LastIndex(ParamsStar(reqs[r].path), "/") # 0)
            => ~reqs[r].rlocked

\* C29: when UpdateConfig has returned an error, cm.routes is what it was
\* when the call took the lock and none of the handles cm.dbs then held has
\* been closed.
C29_UpdateConfigAllOrNothing ==
    (upd.at = "returned" /\ upd.err # "") =>
        /\ routes = upd.prevRoutes
        /\ upd.prevDbs \cap closed = {}

\* C30: no request dispatched by cm.handle has run its handler on a database
\* handle that UpdateConfig had closed before.
C30_NoOperationOnClosedHandle ==
    \A r \in Requests : reqs[r].ran => ~reqs[r].onClosed

====
